---------------------------- MODULE Spec2Model ----------------------------
(***************************************************************************)
(* Model of foldy's FolderOrganizer (src/src/organizer.py): the change /   *)
(* undo journal (apply_changes, undo_last_change), the flatten operation   *)
(* (explode_folder_structure) and the directory scan, over an abstract     *)
(* POSIX file system.                                                      *)
(*                                                                         *)
(* A file or directory name is a sequence of string tokens whose           *)
(* concatenation is the name (<<"f", "_T1">> is "f_T1"); a path is a       *)
(* sequence of names.  A file carries an identity (a natural number) that  *)
(* stands for its content, which the program never reads.                  *)
(*                                                                         *)
(* Every operation of the organizer is synchronous and single-threaded, so *)
(* each one is one atomic action.  A directory listing (os.scandir,        *)
(* os.listdir, os.walk) is taken in one fixed order, SeqOf.  All calls of  *)
(* time.strftime made by one operation read the same clock second.         *)
(*                                                                         *)
(* The suggestion engine (FolderOrganizer.suggest_improvements and its     *)
(* helpers) and the name analyzer (src/src/nlp.py) are pure functions of   *)
(* a scanned tree or of a list of names.  They are modelled as operators   *)
(* over names spelled character by character, and exercised by two         *)
(* further specifications, SuggestSpec and NameSpec, whose initial states  *)
(* draw the argument and whose actions apply one function to it.           *)
(* CollisionSpec and TakenSpec run the organizer on two other trees (one   *)
(* more root file; three folders with destinations that are taken), and    *)
(* HierarchySpec runs the engine on a tree of two levels and applies the   *)
(* suggestions it returns.                                                 *)
(***************************************************************************)
EXTENDS Integers, Sequences, FiniteSets, TLC

VARIABLES fs, logs, clock, folder_structure, last, prev, ops,
          call, arg, returned

\* The organizer and its journal.
organizer_vars == <<fs, logs, clock, folder_structure, last, prev, ops>>

\* The last call of a function of the suggestion engine or of the name
\* analyzer: its name, its argument and what it returned.
analysis_vars == <<call, arg, returned>>

vars == <<fs, logs, clock, folder_structure, last, prev, ops, call, arg, returned>>

(***************************************************************************)
(* Bounds of the model.                                                    *)
(***************************************************************************)
MaxOps == 3
MaxClock == 2

(***************************************************************************)
(* Names and paths.                                                        *)
(***************************************************************************)
N(s) == <<s>>

Dirname(p) == IF Len(p) = 0 THEN p ELSE SubSeq(p, 1, Len(p) - 1)

Basename(p) == p[Len(p)]

Join(d, name) == Append(d, name)

IsPrefix(d, p) == Len(d) <= Len(p) /\ SubSeq(p, 1, Len(d)) = d

Rebase(p, src, dst) == dst \o SubSeq(p, Len(src) + 1, Len(p))

\* The extensions of the file names of the model.
Exts == {".txt", ".jpg", ".pdf"}

\* os.path.splitext on a name: <<base, ext>>, ext = <<>> when there is none.
SplitExt(name) ==
    IF Len(name) > 1 /\ name[Len(name)] \in Exts
    THEN <<SubSeq(name, 1, Len(name) - 1), <<name[Len(name)]>> >>
    ELSE <<name, << >> >>

\* time.strftime("_%Y%m%d_%H%M%S") at clock second t.
TimeSuffix(t) == <<"_T0", "_T1", "_T2", "_T3", "_T4", "_T5", "_T6", "_T7">>[t + 1]

\* f"{base}{timestamp}{ext}"
TimestampedName(name, t) ==
    SplitExt(name)[1] \o <<TimeSuffix(t)>> \o SplitExt(name)[2]

\* f"{base}_{counter}{ext}"
CounterSuffix(c) == <<"_1", "_2", "_3", "_4", "_5", "_6", "_7", "_8">>[c]

CounterName(name, c) ==
    SplitExt(name)[1] \o <<CounterSuffix(c)>> \o SplitExt(name)[2]

\* A listing order of a finite set of paths.
RECURSIVE SeqOf(_)
SeqOf(S) ==
    IF S = {} THEN << >>
    ELSE LET x == CHOOSE y \in S : TRUE IN <<x>> \o SeqOf(S \ {x})

Reverse(s) == [i \in 1..Len(s) |-> s[Len(s) + 1 - i]]

(***************************************************************************)
(* The file system: the set of directories and the files with their        *)
(* identities.  An operation returns [ok, fs]: ok = FALSE is a raised      *)
(* exception, and fs then holds the effects made before the raise.         *)
(***************************************************************************)
Exists(f, p) == p \in f.dirs \/ p \in DOMAIN f.files

IsDir(f, p) == p \in f.dirs

IsFile(f, p) == p \in DOMAIN f.files

Entries(f, d) ==
    {p \in f.dirs \cup DOMAIN f.files : Len(p) = Len(d) + 1 /\ IsPrefix(d, p)}

Ok(f) == [ok |-> TRUE, fs |-> f]

Raise(f) == [ok |-> FALSE, fs |-> f]

\* The subtree at src becomes the subtree at dst (dst is overwritten).
MoveTree(f, src, dst) ==
    LET moved == {q \in DOMAIN f.files : IsPrefix(src, q)}
        kept == {q \in DOMAIN f.files : ~IsPrefix(src, q) /\ q # dst}
        new == {Rebase(q, src, dst) : q \in moved}
    IN  [dirs |-> {IF IsPrefix(src, q) THEN Rebase(q, src, dst) ELSE q : q \in f.dirs},
         files |-> [q \in kept \cup new |->
                      IF q \in new THEN f.files[Rebase(q, dst, src)] ELSE f.files[q]]]

\* os.makedirs(p, exist_ok=True)
Makedirs(f, p) ==
    IF \E k \in 1..Len(p) : IsFile(f, SubSeq(p, 1, k))
    THEN Raise(f)
    ELSE Ok([f EXCEPT !.dirs = @ \cup {SubSeq(p, 1, k) : k \in 0..Len(p)}])

\* os.rename(src, dst)
OsRename(f, src, dst) ==
    IF \/ ~Exists(f, src)
       \/ ~IsDir(f, Dirname(dst))
       \/ IsDir(f, src) /\ IsPrefix(src, dst) /\ src # dst
       \/ IsFile(f, src) /\ IsDir(f, dst)
       \/ IsDir(f, src) /\ IsFile(f, dst)
       \/ IsDir(f, src) /\ IsDir(f, dst) /\ src # dst /\ Entries(f, dst) # {}
    THEN Raise(f)
    ELSE IF src = dst THEN Ok(f) ELSE Ok(MoveTree(f, src, dst))

\* shutil.move(src, dst)
ShutilMove(f, src, dst) ==
    LET real_dst == IF IsDir(f, dst) THEN Join(dst, Basename(src)) ELSE dst
        \* copytree(src, real_dst) and rmtree(src), or copy2(src, real_dst)
        Copied(mk) ==
            IF IsDir(f, src) /\ ~IsPrefix(src, dst) /\ ~Exists(f, real_dst) /\ mk.ok
            THEN Ok(MoveTree(mk.fs, src, real_dst))
            ELSE Raise(f)
        Renamed(r) == IF r.ok THEN r ELSE Copied(Makedirs(f, Dirname(real_dst)))
    IN  IF IsDir(f, dst) /\ src = dst THEN Ok(f)
        ELSE IF IsDir(f, dst) /\ Exists(f, real_dst) THEN Raise(f)
        ELSE Renamed(OsRename(f, src, real_dst))

\* shutil.rmtree(p) of an existing directory
Rmtree(f, p) ==
    [dirs |-> {q \in f.dirs : ~IsPrefix(p, q)},
     files |-> [q \in {r \in DOMAIN f.files : ~IsPrefix(p, r)} |-> f.files[q]]]

\* os.rmdir(p) of an empty directory
Rmdir(f, p) == [f EXCEPT !.dirs = @ \ {p}]

\* "if os.path.exists(p) and not os.listdir(p): os.rmdir(p)"
RemoveIfEmpty(f, p) ==
    IF ~Exists(f, p) THEN Ok(f)
    ELSE IF IsFile(f, p) THEN Raise(f)
    ELSE IF Entries(f, p) = {} THEN Ok(Rmdir(f, p))
    ELSE Ok(f)


\* FolderOrganizer._move_folder_contents(source, destination): the entries of
\* source, listed when the scan of source starts, are moved one by one.
RECURSIVE MoveFolderContents(_, _, _, _)
RECURSIVE MoveEntries(_, _, _, _)
MoveEntries(f, entries, destination, now) ==
    IF entries = << >> THEN Ok(f)
    ELSE LET src_path == Head(entries)
             dst_path == Join(destination, Basename(src_path))
             stamped == Join(destination, TimestampedName(Basename(src_path), now))
             Moved(step) ==
                 IF step.ok THEN MoveEntries(step.fs, Tail(entries), destination, now)
                 ELSE step
         IN  Moved(IF IsDir(f, src_path)
                   THEN IF Exists(f, dst_path)
                        THEN MoveFolderContents(f, src_path, dst_path, now)
                        ELSE ShutilMove(f, src_path, dst_path)
                   ELSE IF Exists(f, dst_path)
                        THEN ShutilMove(f, src_path, stamped)
                        ELSE ShutilMove(f, src_path, dst_path))

MoveFolderContents(f, source, destination, now) ==
    IF ~IsDir(f, source) THEN Raise(f)
    ELSE MoveEntries(f, SeqOf(Entries(f, source)), destination, now)

(***************************************************************************)
(* Suggestions and change records.  Every suggestion has all the fields,   *)
(* the ones its type does not use being empty; a rename map and a          *)
(* 'renamed' map are sequences of pairs in the dict's insertion order.     *)
(***************************************************************************)
Suggestion(type) ==
    [type |-> type, folders |-> << >>, suggested_name |-> << >>,
     suggested_names |-> << >>, parent |-> << >>, folder |-> << >>,
     suggested_parent |-> << >>, files |-> << >>, target_folder |-> << >>,
     is_new_folder |-> FALSE]

NoResult ==
    [new_folder |-> << >>, renamed |-> << >>, moved |-> << >>,
     from |-> << >>, to |-> << >>, target_folder |-> << >>,
     is_new_folder |-> FALSE, moved_files |-> << >>]

\* change_record = {'suggestion': suggestion, 'status': 'completed'} and its
\* 'result' when the branch sets one.
ChangeRecord(suggestion, has_result, result) ==
    [suggestion |-> suggestion, status |-> "completed",
     has_result |-> has_result, result |-> result]

Applied(f, rec) == [ok |-> TRUE, fs |-> f, record |-> rec]

Failed(f) == [ok |-> FALSE, fs |-> f, record |-> ChangeRecord(Suggestion("none"), FALSE, NoResult)]

\* apply_changes, branch merge_similar_folders: the loop over the folders.
RECURSIVE MergeFolders(_, _, _, _)
MergeFolders(f, folders, target_path, now) ==
    IF folders = << >> THEN Ok(f)
    ELSE LET Moved(m) ==
                 IF ~m.ok THEN m
                 ELSE MergeFolders(
                        IF Exists(m.fs, Head(folders)) /\ Head(folders) # target_path
                        THEN Rmtree(m.fs, Head(folders))
                        ELSE m.fs,
                        Tail(folders), target_path, now)
         IN  Moved(MoveFolderContents(f, Head(folders), target_path, now))

ApplyMerge(f, s, now) ==
    IF s.folders = << >> THEN Failed(f)
    ELSE LET target_path == Join(Dirname(s.folders[1]), s.suggested_name)
             Merged(mg) ==
                 IF ~mg.ok THEN Failed(mg.fs)
                 ELSE Applied(mg.fs, ChangeRecord(s, TRUE,
                                [NoResult EXCEPT !.new_folder = target_path]))
             Made(mk) ==
                 IF ~mk.ok THEN Failed(f)
                 ELSE Merged(MergeFolders(mk.fs, s.folders, target_path, now))
         IN  Made(Makedirs(f, target_path))

\* RenameAll without the test that the new path is free.
RECURSIVE RenameAllOnto(_, _, _)
RenameAllOnto(f, pairs, changes) ==
    IF pairs = << >> THEN [ok |-> TRUE, fs |-> f, moved |-> changes]
    ELSE LET path == Head(pairs)[1]
             new_path == Join(Dirname(path), Head(pairs)[2])
             Renamed(r) ==
                 IF r.ok
                 THEN RenameAllOnto(r.fs, Tail(pairs),
                                    Append(changes, [from |-> path, to |-> new_path]))
                 ELSE [ok |-> FALSE, fs |-> r.fs, moved |-> changes]
         IN  IF Exists(f, path)
             THEN Renamed(OsRename(f, path, new_path))
             ELSE RenameAllOnto(f, Tail(pairs), changes)

\* apply_changes, branch rename_for_consistency: the loop over the map.
RECURSIVE RenameAll(_, _, _)
RenameAll(f, pairs, changes) ==
    IF pairs = << >> THEN [ok |-> TRUE, fs |-> f, moved |-> changes]
    ELSE LET path == Head(pairs)[1]
             new_path == Join(Dirname(path), Head(pairs)[2])
             Renamed(r) ==
                 IF r.ok
                 THEN RenameAll(r.fs, Tail(pairs),
                                Append(changes, [from |-> path, to |-> new_path]))
                 ELSE [ok |-> FALSE, fs |-> r.fs, moved |-> changes]
         IN  IF Exists(f, path) /\ ~Exists(f, new_path)
             THEN Renamed(OsRename(f, path, new_path))
             ELSE RenameAll(f, Tail(pairs), changes)

ApplyRename(f, s) ==
    LET Renamed(r) ==
            IF ~r.ok THEN Failed(r.fs)
            ELSE Applied(r.fs, ChangeRecord(s, TRUE, [NoResult EXCEPT !.renamed = r.moved]))
    IN  Renamed(RenameAll(f, s.suggested_names, << >>))

\* GroupFolders without the test that the destination is free.
RECURSIVE GroupFoldersOnto(_, _, _, _)
GroupFoldersOnto(f, folders, target_path, moved) ==
    IF folders = << >> THEN [ok |-> TRUE, fs |-> f, moved |-> moved]
    ELSE LET folder_path == Head(folders)
             new_path == Join(target_path, Basename(folder_path))
             Moved(r) ==
                 IF r.ok
                 THEN GroupFoldersOnto(r.fs, Tail(folders), target_path,
                                       Append(moved, [from |-> folder_path, to |-> new_path]))
                 ELSE [ok |-> FALSE, fs |-> r.fs, moved |-> moved]
         IN  IF Exists(f, folder_path)
             THEN Moved(ShutilMove(f, folder_path, new_path))
             ELSE GroupFoldersOnto(f, Tail(folders), target_path, moved)

\* apply_changes, branch create_group: the loop over the folders.
RECURSIVE GroupFolders(_, _, _, _)
GroupFolders(f, folders, target_path, moved) ==
    IF folders = << >> THEN [ok |-> TRUE, fs |-> f, moved |-> moved]
    ELSE LET folder_path == Head(folders)
             new_path == Join(target_path, Basename(folder_path))
             Moved(r) ==
                 IF r.ok
                 THEN GroupFolders(r.fs, Tail(folders), target_path,
                                   Append(moved, [from |-> folder_path, to |-> new_path]))
                 ELSE [ok |-> FALSE, fs |-> r.fs, moved |-> moved]
         IN  IF Exists(f, folder_path) /\ ~Exists(f, new_path)
             THEN Moved(ShutilMove(f, folder_path, new_path))
             ELSE GroupFolders(f, Tail(folders), target_path, moved)

ApplyCreateGroup(f, s) ==
    LET target_path == Join(s.parent, s.suggested_name)
        Grouped(r) ==
            IF ~r.ok THEN Failed(r.fs)
            ELSE Applied(r.fs, ChangeRecord(s, TRUE, [NoResult EXCEPT !.moved = r.moved]))
        Made(mk) ==
            IF ~mk.ok THEN Failed(f)
            ELSE Grouped(GroupFolders(mk.fs, s.folders, target_path, << >>))
    IN  Made(Makedirs(f, target_path))

\* apply_changes, branch relocate.
ApplyRelocate(f, s) ==
    LET folder_path == s.folder
        new_path == Join(s.suggested_parent, Basename(folder_path))
        Moved(r) ==
            IF r.ok
            THEN Applied(r.fs, ChangeRecord(s, TRUE,
                           [NoResult EXCEPT !.from = folder_path, !.to = new_path]))
            ELSE Failed(r.fs)
    IN  IF Exists(f, folder_path) /\ ~Exists(f, new_path)
        THEN Moved(ShutilMove(f, folder_path, new_path))
        ELSE Applied(f, ChangeRecord(s, FALSE, NoResult))

\* apply_changes, branch group_loose_files: the loop over the files.
RECURSIVE MoveLooseFiles(_, _, _, _, _)
MoveLooseFiles(f, files, target_folder, now, moved_files) ==
    IF files = << >> THEN [ok |-> TRUE, fs |-> f, moved |-> moved_files]
    ELSE LET src_path == Head(files)
             plain == Join(target_folder, Basename(src_path))
             dst_path == IF Exists(f, plain)
                         THEN Join(target_folder, TimestampedName(Basename(src_path), now))
                         ELSE plain
             Moved(r) ==
                 IF r.ok
                 THEN MoveLooseFiles(r.fs, Tail(files), target_folder, now,
                                     Append(moved_files, [from |-> src_path, to |-> dst_path]))
                 ELSE [ok |-> FALSE, fs |-> r.fs, moved |-> moved_files]
         IN  IF Exists(f, src_path)
             THEN Moved(ShutilMove(f, src_path, dst_path))
             ELSE MoveLooseFiles(f, Tail(files), target_folder, now, moved_files)

ApplyLooseFiles(f, s, now) ==
    LET Moved(r) ==
            IF ~r.ok THEN Failed(r.fs)
            ELSE Applied(r.fs, ChangeRecord(s, TRUE,
                           [NoResult EXCEPT !.target_folder = s.target_folder,
                                            !.is_new_folder = s.is_new_folder,
                                            !.moved_files = r.moved]))
        Made(mk) ==
            IF ~mk.ok THEN Failed(f)
            ELSE Moved(MoveLooseFiles(mk.fs, s.files, s.target_folder, now, << >>))
    IN  Made(IF s.is_new_folder THEN Makedirs(f, s.target_folder) ELSE Ok(f))

\* The body of the loop of apply_changes for one suggestion.
ApplySuggestion(f, s, now) ==
    CASE s.type = "merge_similar_folders" -> ApplyMerge(f, s, now)
      [] s.type = "rename_for_consistency" -> ApplyRename(f, s)
      [] s.type = "create_group" -> ApplyCreateGroup(f, s)
      [] s.type = "relocate" -> ApplyRelocate(f, s)
      [] s.type = "group_loose_files" -> ApplyLooseFiles(f, s, now)
      [] OTHER -> Applied(f, ChangeRecord(s, FALSE, NoResult))

\* The loop of apply_changes inside its try block: an exception raised by the
\* i-th suggestion leaves the loop.  attempted counts the suggestions whose
\* branch was entered, raised_at is the index of the one that raised (or 0).
RECURSIVE ApplyLoop(_, _, _, _, _)
ApplyLoop(f, approved_suggestions, i, changes, now) ==
    IF i > Len(approved_suggestions)
    THEN [ok |-> TRUE, fs |-> f, changes |-> changes, attempted |-> i - 1, raised_at |-> 0]
    ELSE LET Done(r) ==
                 IF r.ok
                 THEN ApplyLoop(r.fs, approved_suggestions, i + 1,
                                Append(changes, r.record), now)
                 ELSE [ok |-> FALSE, fs |-> r.fs, changes |-> changes,
                       attempted |-> i, raised_at |-> i]
         IN  Done(ApplySuggestion(f, approved_suggestions[i], now))

(***************************************************************************)
(* The journal directory: a set of journal files.  The name of a file is   *)
(* its tag and its timestamp, so writing a file replaces the file of the   *)
(* same tag and second.  json.dump followed by json.load gives back the    *)
(* lists, maps and strings of a change log unchanged; a file that json.load*)
(* cannot parse has readable = FALSE.                                      *)
(***************************************************************************)
LogFile(tag, ts, changes, moved_files, deleted_dirs) ==
    [tag |-> tag, ts |-> ts, readable |-> TRUE, changes |-> changes,
     moved_files |-> moved_files, deleted_dirs |-> deleted_dirs]

NoLog == [LogFile("none", 0, << >>, << >>, << >>) EXCEPT !.readable = FALSE]

\* open(log_file, 'w') and json.dump
WriteLog(dir, j) == {k \in dir : ~(k.tag = j.tag /\ k.ts = j.ts)} \cup {j}

\* [f for f in os.listdir(self.log_path) if f.startswith('changes_')]
ChangeLogs(dir) == {j \in dir : j.tag = "changes"}

\* sorted(...)[-1]: the names sort by their timestamp.
LatestLog(dir) == CHOOSE j \in ChangeLogs(dir) : \A k \in ChangeLogs(dir) : k.ts <= j.ts

(***************************************************************************)
(* The scan.                                                               *)
(***************************************************************************)
root_path == <<N("R")>>

NotScanned == [scanned |-> FALSE, dirs |-> {}, files |-> {}]

\* scan_folder_structure: os.stat and os.scandir of the root raise when the
\* root is not a directory.
ScanOk(f) == IsDir(f, root_path)

ScanDirectory(f) ==
    [scanned |-> TRUE,
     dirs |-> {d \in f.dirs : IsPrefix(root_path, d)},
     files |-> {p \in DOMAIN f.files : IsPrefix(root_path, p)}]

\* _collect_all_files: the files of the node, then those of its subdirectories.
RECURSIVE CollectAllFiles(_, _)
RECURSIVE CollectSubdirs(_, _)
CollectSubdirs(snap, subdirs) ==
    IF subdirs = << >> THEN << >>
    ELSE CollectAllFiles(snap, Head(subdirs)) \o CollectSubdirs(snap, Tail(subdirs))

CollectAllFiles(snap, node) ==
    SeqOf({p \in snap.files : Dirname(p) = node})
      \o CollectSubdirs(snap, SeqOf({d \in snap.dirs : Len(d) > 0 /\ Dirname(d) = node /\ d # node}))

(***************************************************************************)
(* undo_last_change.                                                       *)
(***************************************************************************)
\* branch merge_similar_folders: the loop over the original folders.
RECURSIVE RestoreFolders(_, _, _, _)
RestoreFolders(f, folders, new_folder, now) ==
    IF folders = << >> THEN Ok(f)
    ELSE LET original_path == Head(folders)
             Moved(m) ==
                 IF ~m.ok THEN m ELSE RestoreFolders(m.fs, Tail(folders), new_folder, now)
             Made(mk) ==
                 IF ~mk.ok THEN mk
                 ELSE Moved(MoveFolderContents(mk.fs, new_folder, original_path, now))
         IN  Made(Makedirs(f, original_path))

UndoMerge(f, change, now) ==
    IF ~change.has_result THEN Ok(f)
    ELSE LET Restored(r) ==
                 IF r.ok THEN RemoveIfEmpty(r.fs, change.result.new_folder) ELSE r
         IN  Restored(RestoreFolders(f, change.suggestion.folders,
                                     change.result.new_folder, now))

\* branch rename_for_consistency: the loop over the renamed map.
RECURSIVE RenameBack(_, _)
RenameBack(f, renamed) ==
    IF renamed = << >> THEN Ok(f)
    ELSE LET original_path == Head(renamed).from
             new_path == Head(renamed).to
             Renamed(r) == IF r.ok THEN RenameBack(r.fs, Tail(renamed)) ELSE r
         IN  IF Exists(f, new_path)
             THEN Renamed(OsRename(f, new_path, original_path))
             ELSE RenameBack(f, Tail(renamed))

UndoRename(f, change) ==
    IF ~change.has_result THEN Ok(f) ELSE RenameBack(f, change.result.renamed)

\* "os.makedirs(os.path.dirname(orig), exist_ok=True); shutil.move(new, orig)"
MoveBackFolder(f, new_path, orig_path) ==
    LET Made(mk) == IF mk.ok THEN ShutilMove(mk.fs, new_path, orig_path) ELSE mk
    IN  Made(Makedirs(f, Dirname(orig_path)))

\* branch create_group: the loop over the moved folders.
RECURSIVE MoveBackFolders(_, _)
MoveBackFolders(f, moved) ==
    IF moved = << >> THEN Ok(f)
    ELSE LET Moved(r) == IF r.ok THEN MoveBackFolders(r.fs, Tail(moved)) ELSE r
         IN  IF Exists(f, Head(moved).to)
             THEN Moved(MoveBackFolder(f, Head(moved).to, Head(moved).from))
             ELSE MoveBackFolders(f, Tail(moved))

UndoCreateGroup(f, change) ==
    IF ~change.has_result THEN Ok(f)
    ELSE LET group_path == Join(change.suggestion.parent, change.suggestion.suggested_name)
             Moved(r) == IF r.ok THEN RemoveIfEmpty(r.fs, group_path) ELSE r
         IN  Moved(MoveBackFolders(f, change.result.moved))

\* branch relocate
UndoRelocate(f, change) ==
    IF ~change.has_result THEN Ok(f)
    ELSE IF Exists(f, change.result.to)
         THEN MoveBackFolder(f, change.result.to, change.result.from)
         ELSE Ok(f)

\* MoveBackFiles without the test that the moved file still exists.
RECURSIVE MoveBackFilesUnchecked(_, _)
MoveBackFilesUnchecked(f, moved_files) ==
    IF moved_files = << >> THEN Ok(f)
    ELSE LET Moved(r) == IF r.ok THEN MoveBackFilesUnchecked(r.fs, Tail(moved_files)) ELSE r
         IN  Moved(ShutilMove(f, Head(moved_files).to, Head(moved_files).from))

\* branch group_loose_files: the loop over the moved files.
RECURSIVE MoveBackFiles(_, _)
MoveBackFiles(f, moved_files) ==
    IF moved_files = << >> THEN Ok(f)
    ELSE LET Moved(r) == IF r.ok THEN MoveBackFiles(r.fs, Tail(moved_files)) ELSE r
         IN  IF Exists(f, Head(moved_files).to)
             THEN Moved(ShutilMove(f, Head(moved_files).to, Head(moved_files).from))
             ELSE MoveBackFiles(f, Tail(moved_files))

\* UndoLooseFiles without the removal of the newly created target folder.
UndoLooseFilesNoCleanup(f, change) ==
    IF ~change.has_result THEN Ok(f)
    ELSE MoveBackFiles(f, change.result.moved_files)

UndoLooseFiles(f, change) ==
    IF ~change.has_result THEN Ok(f)
    ELSE LET Moved(r) ==
                 IF r.ok /\ change.result.is_new_folder
                 THEN RemoveIfEmpty(r.fs, change.result.target_folder)
                 ELSE r
         IN  Moved(MoveBackFiles(f, change.result.moved_files))

\* The body of the loop of undo_last_change for one change record.
UndoChange(f, change, now) ==
    CASE change.suggestion.type = "merge_similar_folders" -> UndoMerge(f, change, now)
      [] change.suggestion.type = "rename_for_consistency" -> UndoRename(f, change)
      [] change.suggestion.type = "create_group" -> UndoCreateGroup(f, change)
      [] change.suggestion.type = "relocate" -> UndoRelocate(f, change)
      [] change.suggestion.type = "group_loose_files" -> UndoLooseFiles(f, change)
      [] OTHER -> Ok(f)

\* The change records replayed in the recorded order.
ReplayOrderForward(changes) == changes

\* "for change in reversed(change_log['changes'])"
ReplayOrder(changes) == Reverse(changes)

\* The loop of undo_last_change: order is the sequence of the change records
\* whose processing started.
RECURSIVE UndoLoop(_, _, _, _)
UndoLoop(f, todo, order, now) ==
    IF todo = << >> THEN [ok |-> TRUE, fs |-> f, order |-> order]
    ELSE LET Done(r) ==
                 IF r.ok THEN UndoLoop(r.fs, Tail(todo), Append(order, Head(todo)), now)
                 ELSE [ok |-> FALSE, fs |-> r.fs, order |-> Append(order, Head(todo))]
         IN  Done(UndoChange(f, Head(todo), now))

\* The journal file removed before the replay, whatever its outcome.
LogsAfterUndoEarlyRemove(dir, latest_log, replayed) == dir \ {latest_log}

\* The journal directory when undo_last_change returns: os.remove(latest_log)
\* is reached only when the replay raised nothing.
LogsAfterUndo(dir, latest_log, replayed) ==
    IF replayed THEN dir \ {latest_log} ELSE dir

\* undo_last_change reporting success when it finds no change log.
UndoWithoutLogSuccess == TRUE

\* The value undo_last_change returns when it finds no change log.
UndoWithoutLog == FALSE

(***************************************************************************)
(* explode_folder_structure.                                               *)
(***************************************************************************)
\* FreeCounterPath without the counter: the colliding name itself.
FreeCounterPathColliding(f, filename, counter) == Join(root_path, filename)

\* "while os.path.exists(dst_path): ... counter += 1"
RECURSIVE FreeCounterPath(_, _, _)
FreeCounterPath(f, filename, counter) ==
    IF Exists(f, Join(root_path, CounterName(filename, counter)))
    THEN FreeCounterPath(f, filename, counter + 1)
    ELSE Join(root_path, CounterName(filename, counter))

\* The loop that moves all the files to the root.
RECURSIVE ExplodeFiles(_, _, _)
ExplodeFiles(f, all_files, moved_files) ==
    IF all_files = << >> THEN [ok |-> TRUE, fs |-> f, moved |-> moved_files]
    ELSE LET src_path == Head(all_files)
             filename == Basename(src_path)
             plain == Join(root_path, filename)
             dst_path == IF Exists(f, plain) THEN FreeCounterPath(f, filename, 1) ELSE plain
             Moved(r) ==
                 IF r.ok
                 THEN ExplodeFiles(r.fs, Tail(all_files),
                                   Append(moved_files, [from |-> src_path, to |-> dst_path]))
                 ELSE [ok |-> FALSE, fs |-> r.fs, moved |-> moved_files]
         IN  IF Dirname(src_path) = root_path
             THEN ExplodeFiles(f, Tail(all_files), moved_files)
             ELSE Moved(ShutilMove(f, src_path, dst_path))

\* The loop over os.walk(root, topdown=False): a directory is deleted when the
\* listing os.walk took of it, before it walked its subdirectories, was empty.
DeletedDirs(f) ==
    {d \in f.dirs : IsPrefix(root_path, d) /\ d # root_path /\ Entries(f, d) = {}}

DeleteEmptyDirs(f) == [f EXCEPT !.dirs = @ \ DeletedDirs(f)]

(***************************************************************************)
(* The three public operations, as functions of the file system, the       *)
(* journal directory, the snapshot and the clock second.                   *)
(***************************************************************************)
\* apply_changes(approved_suggestions)
apply_changes(f, dir, snap, approved_suggestions, now) ==
    LET Returned(r) ==
            [ret |-> r.ok /\ ScanOk(r.fs),
             fs |-> r.fs,
             logs |-> IF r.ok
                      THEN WriteLog(dir, LogFile("changes", now, r.changes, << >>, << >>))
                      ELSE dir,
             folder_structure |-> IF r.ok /\ ScanOk(r.fs) THEN ScanDirectory(r.fs) ELSE snap,
             attempted |-> r.attempted,
             raised_at |-> r.raised_at,
             selected |-> FALSE, journal |-> NoLog, order |-> << >>]
    IN  Returned(ApplyLoop(f, approved_suggestions, 1, << >>, now))

\* undo_last_change()
undo_last_change(f, dir, snap, now) ==
    IF ChangeLogs(dir) = {}
    THEN [ret |-> UndoWithoutLog, fs |-> f, logs |-> dir, folder_structure |-> snap,
          attempted |-> 0, raised_at |-> 0,
          selected |-> FALSE, journal |-> NoLog, order |-> << >>]
    ELSE LET Returned(latest_log, r) ==
                 [ret |-> r.ok /\ ScanOk(r.fs),
                  fs |-> r.fs,
                  logs |-> LogsAfterUndo(dir, latest_log, r.ok),
                  folder_structure |->
                      IF r.ok /\ ScanOk(r.fs) THEN ScanDirectory(r.fs) ELSE snap,
                  attempted |-> Len(r.order),
                  raised_at |-> IF r.ok THEN 0 ELSE Len(r.order),
                  selected |-> TRUE, journal |-> latest_log, order |-> r.order]
             Loaded(latest_log) ==
                 Returned(latest_log,
                          IF latest_log.readable
                          THEN UndoLoop(f, ReplayOrder(latest_log.changes), << >>, now)
                          ELSE [ok |-> FALSE, fs |-> f, order |-> << >>])
         IN  Loaded(LatestLog(dir))

\* explode_folder_structure()
explode_folder_structure(f, dir, snap, now) ==
    IF ~snap.scanned /\ ~ScanOk(f)
    THEN [ret |-> FALSE, fs |-> f, logs |-> dir, folder_structure |-> snap,
          attempted |-> 0, raised_at |-> 0,
          selected |-> FALSE, journal |-> NoLog, order |-> << >>]
    ELSE LET Deleted(structure, m, g, written) ==
                 [ret |-> ScanOk(g), fs |-> g, logs |-> WriteLog(dir, written),
                  folder_structure |-> IF ScanOk(g) THEN ScanDirectory(g) ELSE structure,
                  attempted |-> Len(m.moved), raised_at |-> 0,
                  selected |-> FALSE, journal |-> written, order |-> << >>]
             Moved(structure, m) ==
                 IF ~m.ok
                 THEN [ret |-> FALSE, fs |-> m.fs, logs |-> dir,
                       folder_structure |-> structure,
                       attempted |-> Len(m.moved), raised_at |-> Len(m.moved) + 1,
                       selected |-> FALSE, journal |-> NoLog, order |-> << >>]
                 ELSE Deleted(structure, m, DeleteEmptyDirs(m.fs),
                              LogFile("explode", now, << >>, m.moved,
                                      SeqOf(DeletedDirs(m.fs))))
             Scanned(structure) ==
                 Moved(structure,
                       ExplodeFiles(f, CollectAllFiles(structure, root_path), << >>))
         IN  Scanned(IF snap.scanned THEN snap ELSE ScanDirectory(f))

(***************************************************************************)
(* The directory tree and the suggestions of the model.                    *)
(***************************************************************************)
P(names) == root_path \o [i \in 1..Len(names) |-> N(names[i])]

File(dir, base, ext) == Join(dir, <<base, ext>>)

InitialTree ==
    [dirs |-> {<< >>, root_path, P(<<"a">>), P(<<"a", "s">>), P(<<"b">>)},
     files |-> (File(P(<<"a">>), "f", ".txt") :> 1)
            @@ (File(P(<<"a", "s">>), "g", ".txt") :> 2)
            @@ (File(P(<<"b">>), "f", ".txt") :> 3)
            @@ (File(root_path, "x", ".jpg") :> 4)
            @@ (File(root_path, "y", ".jpg") :> 5)]

\* The same tree with a file f.txt in the root as well.
TreeWithRootFile ==
    [InitialTree EXCEPT !.files = @ @@ (File(root_path, "f", ".txt") :> 6)]

MergeAB ==
    [Suggestion("merge_similar_folders") EXCEPT
        !.folders = <<P(<<"a">>), P(<<"b">>)>>, !.suggested_name = N("m")]

MergeSB ==
    [Suggestion("merge_similar_folders") EXCEPT
        !.folders = <<P(<<"a", "s">>), P(<<"b">>)>>, !.suggested_name = N("m")]

MergeNested ==
    [Suggestion("merge_similar_folders") EXCEPT
        !.folders = <<P(<<"a">>), P(<<"a", "s">>)>>, !.suggested_name = N("a_combined")]

\* A merge whose suggested name is the name of its first folder
\* (_suggest_common_name: "otherwise, use the shortest name").
MergeIntoA ==
    [Suggestion("merge_similar_folders") EXCEPT
        !.folders = <<P(<<"a">>), P(<<"b">>)>>, !.suggested_name = N("a")]

RenameA ==
    [Suggestion("rename_for_consistency") EXCEPT
        !.suggested_names = << <<P(<<"a">>), N("A")>> >>]

GroupAB ==
    [Suggestion("create_group") EXCEPT
        !.folders = <<P(<<"a">>), P(<<"b">>)>>, !.parent = root_path,
        !.suggested_name = N("g")]

RelocateB ==
    [Suggestion("relocate") EXCEPT
        !.folder = P(<<"b">>), !.suggested_parent = P(<<"a">>)]

RelocateRenamed ==
    [Suggestion("relocate") EXCEPT
        !.folder = P(<<"A">>), !.suggested_parent = P(<<"b">>)]

LooseNew ==
    [Suggestion("group_loose_files") EXCEPT
        !.files = <<File(root_path, "x", ".jpg"), File(root_path, "y", ".jpg")>>,
        !.target_folder = P(<<"t">>), !.is_new_folder = TRUE]

LooseExisting ==
    [Suggestion("group_loose_files") EXCEPT
        !.files = <<File(root_path, "x", ".jpg")>>,
        !.target_folder = P(<<"b">>), !.is_new_folder = FALSE]

LooseIntoA ==
    [Suggestion("group_loose_files") EXCEPT
        !.files = <<File(root_path, "f", ".txt")>>,
        !.target_folder = P(<<"a">>), !.is_new_folder = FALSE]

\* The lists of approved suggestions that apply_changes is called with.
ApprovedLists ==
    {<<MergeAB>>, <<MergeSB>>, <<MergeNested>>, <<RenameA>>, <<GroupAB>>,
     <<RelocateB>>, <<LooseNew>>, <<LooseExisting>>,
     <<MergeNested, LooseNew>>, <<LooseNew, MergeNested>>,
     <<RenameA, RelocateRenamed>>, <<RenameA, RelocateB>>}

\* The lists apply_changes is called with on the tree with f.txt in the root.
CollidingLists == {<<MergeIntoA>>, <<LooseIntoA>>, <<MergeAB>>, <<LooseExisting>>}

\* A journal file left in the journal directory by an earlier run, which
\* json.load cannot parse.
OldUnreadableLog == [LogFile("changes", 0, << >>, << >>, << >>) EXCEPT !.readable = FALSE]

(***************************************************************************)
(* The state machine.  last and prev record the last two operations: what  *)
(* was called, what it returned and the state it started from (fresh: the   *)
(* snapshot it started from was absent or equal to a scan of the tree).    *)
(***************************************************************************)
OpRecord(op, approved, r, f, dir, snap, now) ==
    [op |-> op, ret |-> r.ret, approved |-> approved, attempted |-> r.attempted,
     raised_at |-> r.raised_at, ts |-> now, selected |-> r.selected,
     journal |-> r.journal, order |-> r.order, pre_fs |-> f, pre_logs |-> dir,
     fresh |-> ~snap.scanned \/ snap = ScanDirectory(f)]

NoOp ==
    [op |-> "none", ret |-> FALSE, approved |-> << >>, attempted |-> 0,
     raised_at |-> 0, ts |-> 0, selected |-> FALSE, journal |-> NoLog,
     order |-> << >>, pre_fs |-> InitialTree, pre_logs |-> {},
     fresh |-> TRUE]

Init ==
    /\ fs = InitialTree
    /\ logs \in {{}, {OldUnreadableLog}}
    /\ clock = 1
    /\ folder_structure = NotScanned
    /\ last = NoOp
    /\ prev = NoOp
    /\ ops = 0
    /\ call = "none"
    /\ arg = << >>
    /\ returned = << >>

Finish(op, approved, r) ==
    /\ fs' = r.fs
    /\ logs' = r.logs
    /\ folder_structure' = r.folder_structure
    /\ last' = OpRecord(op, approved, r, fs, logs, folder_structure, clock)
    /\ prev' = last
    /\ ops' = ops + 1
    /\ UNCHANGED <<clock, analysis_vars>>

Apply(approved) ==
    /\ ops < MaxOps
    /\ Finish("apply", approved, apply_changes(fs, logs, folder_structure, approved, clock))

Undo ==
    /\ ops < MaxOps
    /\ Finish("undo", << >>, undo_last_change(fs, logs, folder_structure, clock))

Explode ==
    /\ ops < MaxOps
    /\ Finish("explode", << >>, explode_folder_structure(fs, logs, folder_structure, clock))

\* FolderOrganizer.__init__: a new run of the tool starts without a snapshot.
NewOrganizer ==
    /\ folder_structure.scanned
    /\ folder_structure' = NotScanned
    /\ UNCHANGED <<fs, logs, clock, last, prev, ops, analysis_vars>>

\* A second passes.
Tick ==
    /\ clock < MaxClock
    /\ clock' = clock + 1
    /\ UNCHANGED <<fs, logs, folder_structure, last, prev, ops, analysis_vars>>

Next ==
    \/ \E approved \in ApprovedLists : Apply(approved)
    \/ Undo
    \/ Explode
    \/ NewOrganizer
    \/ Tick

Spec == Init /\ [][Next]_vars

(***************************************************************************)
(* The same state machine on the tree with f.txt in the root, where a      *)
(* loose file can meet a file of its name in the folder it is moved to.    *)
(***************************************************************************)
CollisionInit ==
    /\ fs = TreeWithRootFile
    /\ logs \in {{}, {OldUnreadableLog}}
    /\ clock = 1
    /\ folder_structure = NotScanned
    /\ last = NoOp
    /\ prev = NoOp
    /\ ops = 0
    /\ call = "none"
    /\ arg = << >>
    /\ returned = << >>

CollisionNext ==
    \/ \E approved \in CollidingLists : Apply(approved)
    \/ Undo
    \/ Explode
    \/ NewOrganizer
    \/ Tick

CollisionSpec == CollisionInit /\ [][CollisionNext]_vars

(***************************************************************************)
(* The same state machine on a tree of three folders that each hold a file *)
(* f.txt, the first folder holding a subdirectory named like the second:   *)
(* and an empty folder e: a rename, a grouping or a relocation can find    *)
(* its destination taken, and a merge of the three folders meets the same  *)
(* file name twice.                                                        *)
(***************************************************************************)
ThreeFolders ==
    [dirs |-> {<< >>, root_path, P(<<"a">>), P(<<"a", "b">>), P(<<"b">>), P(<<"c">>),
               P(<<"e">>)},
     files |-> (File(P(<<"a">>), "f", ".txt") :> 1)
            @@ (File(P(<<"b">>), "f", ".txt") :> 2)
            @@ (File(P(<<"c">>), "f", ".txt") :> 3)]

MergeABC ==
    [Suggestion("merge_similar_folders") EXCEPT
        !.folders = <<P(<<"a">>), P(<<"b">>), P(<<"c">>)>>, !.suggested_name = N("m")]

\* R/c is to be named like the existing R/e, R/b gets a free name.
RenameOntoE ==
    [Suggestion("rename_for_consistency") EXCEPT
        !.suggested_names = << <<P(<<"c">>), N("e")>>, <<P(<<"b">>), N("B")>> >>]

\* The group directory R/a exists and holds a folder named b.
GroupIntoA ==
    [Suggestion("create_group") EXCEPT
        !.folders = <<P(<<"b">>), P(<<"c">>)>>, !.parent = root_path,
        !.suggested_name = N("a")]

GroupBC ==
    [Suggestion("create_group") EXCEPT
        !.folders = <<P(<<"b">>), P(<<"c">>)>>, !.parent = root_path,
        !.suggested_name = N("g")]

RelocateC ==
    [Suggestion("relocate") EXCEPT
        !.folder = P(<<"c">>), !.suggested_parent = P(<<"a">>)]

\* The lists apply_changes is called with on the tree of three folders
\* (RelocateB finds R/a/b taken).
TakenLists ==
    {<<MergeABC>>, <<RenameOntoE>>, <<GroupIntoA>>, <<GroupBC>>,
     <<RelocateB>>, <<RelocateC>>}

TakenInit ==
    /\ fs = ThreeFolders
    /\ logs \in {{}, {OldUnreadableLog}}
    /\ clock = 1
    /\ folder_structure = NotScanned
    /\ last = NoOp
    /\ prev = NoOp
    /\ ops = 0
    /\ call = "none"
    /\ arg = << >>
    /\ returned = << >>

TakenNext ==
    \/ \E approved \in TakenLists : Apply(approved)
    \/ Undo
    \/ Explode
    \/ NewOrganizer
    \/ Tick

TakenSpec == TakenInit /\ [][TakenNext]_vars

(***************************************************************************)
(* Properties.                                                             *)
(***************************************************************************)
\* The path of the file of identity id.
PathOf(f, id) == CHOOSE p \in DOMAIN f.files : f.files[p] = id

FileIds(f) == {f.files[p] : p \in DOMAIN f.files}

\* The recorded destinations of the renames, folder moves and file moves of
\* a change record.
RecordedDestinations(change) ==
    {change.result.renamed[i].to : i \in 1..Len(change.result.renamed)}
      \cup {change.result.moved[i].to : i \in 1..Len(change.result.moved)}
      \cup {change.result.moved_files[i].to : i \in 1..Len(change.result.moved_files)}
      \cup (IF change.suggestion.type = "relocate" /\ change.has_result
            THEN {change.result.to} ELSE {})

\* The last operation is an undo that directly follows a successful apply of
\* the single suggestion s and replays its journal.
UndoneSingle(type) ==
    /\ last.op = "undo" /\ last.ret
    /\ prev.op = "apply" /\ prev.ret
    /\ Len(prev.approved) = 1 /\ prev.approved[1].type = type
    /\ last.selected /\ last.journal.ts = prev.ts
    /\ Len(last.journal.changes) = 1
    /\ last.journal.changes[1].suggestion = prev.approved[1]

\* C1: when the k-th approved suggestion raises, every later suggestion of the
\* list is still attempted and apply returns false.
C1_LaterSuggestionsAttempted ==
    (last.op = "apply" /\ last.raised_at > 0)
        => (last.attempted = Len(last.approved) /\ ~last.ret)

\* C2: every apply call, also one that returns false, has written the journal
\* file of its batch when it returns.
C2_JournalWrittenByEveryApply ==
    last.op = "apply"
        => \E j \in logs :
              /\ j.tag = "changes" /\ j.ts = last.ts /\ j.readable
              /\ Len(j.changes) = Len(last.approved)
              /\ \A i \in 1..Len(j.changes) : j.changes[i].suggestion = last.approved[i]

\* C3: apply then undo of a merge of two or more folders restores the set of
\* folder paths and puts every file back in the folder that contained it.
C3_MergeRoundTrip ==
    (UndoneSingle("merge_similar_folders") /\ Len(prev.approved[1].folders) >= 2)
        => /\ fs.dirs = prev.pre_fs.dirs
           /\ FileIds(fs) = FileIds(prev.pre_fs)
           /\ \A id \in FileIds(fs) :
                 Dirname(PathOf(fs, id)) = Dirname(PathOf(prev.pre_fs, id))

\* The apply recorded in the journal met no file-name collision in the target.
NoCollision(change) ==
    \A i \in 1..Len(change.result.moved_files) :
        change.result.moved_files[i].to
            = Join(change.result.target_folder, Basename(change.result.moved_files[i].from))

\* C4: apply then undo of group_loose_files without a name collision returns
\* every moved file to its original path, and removes the target folder when
\* apply created it.
C4_LooseFilesRoundTrip ==
    (UndoneSingle("group_loose_files") /\ NoCollision(last.journal.changes[1]))
        => LET result == last.journal.changes[1].result
           IN  /\ \A i \in 1..Len(result.moved_files) :
                     /\ IsFile(fs, result.moved_files[i].from)
                     /\ fs.files[result.moved_files[i].from]
                            = prev.pre_fs.files[result.moved_files[i].from]
                     /\ ~Exists(fs, result.moved_files[i].to)
               /\ (result.is_new_folder /\ ~Exists(prev.pre_fs, result.target_folder))
                     => ~Exists(fs, result.target_folder)

C4_Witness ==
    /\ UndoneSingle("group_loose_files")
    /\ NoCollision(last.journal.changes[1])
    /\ Len(last.journal.changes[1].result.moved_files) = 2
    /\ last.journal.changes[1].result.is_new_folder
    /\ ~Exists(prev.pre_fs, last.journal.changes[1].result.target_folder)

\* C5: a successful undo processes the change records of the selected journal
\* in the reverse of the recorded order, and the journal file is gone when undo
\* returns true.
C5_ReverseReplayThenDelete ==
    (last.op = "undo" /\ last.ret)
        => /\ last.selected
           /\ Len(last.order) = Len(last.journal.changes)
           /\ \A i \in 1..Len(last.order) :
                 last.order[i] = last.journal.changes[Len(last.order) + 1 - i]
           /\ ~\E j \in logs : j.tag = last.journal.tag /\ j.ts = last.journal.ts

C5_Witness ==
    /\ last.op = "undo" /\ last.ret
    /\ Len(last.journal.changes) = 2
    /\ last.journal.changes[1] # last.journal.changes[2]

\* C6: undo acts on the batch that was journaled last, an explode batch
\* included: an undo that follows a successful explode reverses that explode.
C6_UndoActsOnLatestBatch ==
    (last.op = "undo" /\ prev.op = "explode" /\ prev.ret)
        => (last.selected /\ last.journal = prev.journal)

\* C7: with no journal file to undo, undo returns false and changes neither
\* the directory tree nor the journal directory.
C7_UndoWithoutJournal ==
    (last.op = "undo" /\ {j \in last.pre_logs : j.tag = "changes"} = {})
        => (~last.ret /\ fs = last.pre_fs /\ logs = last.pre_logs)

C7_Witness ==
    last.op = "undo" /\ last.pre_logs = {} /\ ~last.selected

\* C8: when undo returns false after it selected a journal file, that file
\* still exists, unchanged.
C8_FailedUndoKeepsJournal ==
    (last.op = "undo" /\ last.selected /\ ~last.ret)
        => (last.journal \in logs /\ logs = last.pre_logs)

C8_Witness ==
    /\ last.op = "undo" /\ last.selected /\ ~last.ret
    /\ last.journal.readable /\ last.raised_at > 0

\* The selected journal is readable and records at least one destination, and
\* some recorded destination no longer exists when undo starts.
SomeDestinationMissing ==
    /\ last.op = "undo" /\ last.selected /\ last.journal.readable
    /\ \E i \in 1..Len(last.journal.changes) :
          \E d \in RecordedDestinations(last.journal.changes[i]) :
              ~Exists(last.pre_fs, d)

\* C9 as claimed: when a recorded destination no longer exists, undo returns
\* false and keeps the journal file.
C9_MissingDestinationFailsUndo ==
    SomeDestinationMissing => (~last.ret /\ last.journal \in logs)

\* The selected journal holds only rename, create_group, relocate and
\* group_loose_files records, none of their recorded destinations exists when
\* undo starts, and no recorded group or target folder is a regular file.
AllDestinationsMissing ==
    /\ SomeDestinationMissing
    /\ \A i \in 1..Len(last.journal.changes) :
          LET change == last.journal.changes[i]
          IN  /\ change.suggestion.type # "merge_similar_folders"
              /\ \A d \in RecordedDestinations(change) : ~Exists(last.pre_fs, d)
              /\ ~IsFile(last.pre_fs, change.result.target_folder)
              /\ ~IsFile(last.pre_fs, Join(change.suggestion.parent,
                                             change.suggestion.suggested_name))

\* C9 as amended: a recorded destination that no longer exists is skipped, not
\* treated as a failure: when it holds of all the recorded destinations, undo
\* moves no file, returns true and deletes the journal file.
C9_MissingDestinationSkipped ==
    AllDestinationsMissing
        => /\ last.ret
           /\ last.journal \notin logs
           /\ fs.files = last.pre_fs.files
           /\ fs.dirs \subseteq last.pre_fs.dirs

C9_Witness ==
    /\ AllDestinationsMissing
    /\ \E i \in 1..Len(last.journal.changes) :
          Len(last.journal.changes[i].result.moved_files) > 0

\* C10: after a successful explode that left every file in the root, no
\* directory other than the root remains under the root.
C10_NoDirectoryLeftAfterExplode ==
    (/\ last.op = "explode" /\ last.ret
     /\ \A p \in DOMAIN fs.files : IsPrefix(root_path, p) => Dirname(p) = root_path)
        => {d \in fs.dirs : IsPrefix(root_path, d)} = {root_path}

\* The files below the root of a tree.
FilesUnder(f) == {p \in DOMAIN f.files : IsPrefix(root_path, p)}

\* The snapshot explode starts from is the scan of the tree on disk: it was
\* taken by the call itself, or it equals that scan.
FreshlyScanned(rec) == ScanOk(rec.pre_fs) /\ rec.fresh

\* C11: after a successful explode of a freshly scanned tree with N files,
\* exactly N files are directly in the root and they are the N files of the
\* tree (none lost, none overwritten), also when names collide.
C11_ExplodeKeepsEveryFile ==
    (last.op = "explode" /\ last.ret /\ FreshlyScanned(last)) =>
        /\ Cardinality({p \in FilesUnder(fs) : Dirname(p) = root_path})
             = Cardinality(FilesUnder(last.pre_fs))
        /\ {fs.files[p] : p \in FilesUnder(fs)}
             = {last.pre_fs.files[p] : p \in FilesUnder(last.pre_fs)}
        /\ \A p \in FilesUnder(fs) : Dirname(p) = root_path

\* A successful explode of a freshly scanned tree in which two files of
\* different subdirectories share a name: one got a counter-suffixed name.
C11_Witness ==
    /\ last.op = "explode" /\ last.ret /\ FreshlyScanned(last)
    /\ \E p, q \in FilesUnder(last.pre_fs) :
          p # q /\ Basename(p) = Basename(q) /\ Dirname(p) # root_path
    /\ \E i \in 1..Len(last.journal.moved_files) :
          /\ Basename(last.journal.moved_files[i].to)
               = CounterName(Basename(last.journal.moved_files[i].from), 1)
          /\ IsFile(fs, last.journal.moved_files[i].to)

\* C12: when an apply or an undo that changed the tree returns, with true or
\* with false, the snapshot in memory equals a scan of the tree on disk.
C12_SnapshotMatchesDiskAfterApplyOrUndo ==
    (last.op \in {"apply", "undo"} /\ fs # last.pre_fs /\ ScanOk(fs)) =>
        folder_structure = ScanDirectory(fs)

\* C13: undo is not a stack: after a successful apply and a successful undo
\* of it, a second undo call does not reverse an earlier batch.
C13_SecondUndoKeepsEarlierBatch ==
    (last.op = "undo" /\ last.ret /\ last.selected
       /\ prev.op = "apply" /\ prev.ret) =>
        LET second == undo_last_change(fs, logs, folder_structure, clock)
        IN  ~(/\ second.ret
              /\ second.selected
              /\ second.journal.ts < last.journal.ts
              /\ second.fs # fs)

\* The apply of one group_loose_files suggestion that returned true.
AppliedLooseFiles ==
    /\ last.op = "apply" /\ last.ret
    /\ Len(last.approved) = 1
    /\ last.approved[1].type = "group_loose_files"

\* The identities of the files directly in directory d.
IdsIn(f, d) == {f.files[p] : p \in {q \in DOMAIN f.files : Dirname(q) = d}}

\* C20: after apply of a group_loose_files suggestion returned true, every
\* listed file that existed at its source path is in the target folder and
\* no longer at its original path, and every file that was in the target
\* folder before is still there.
C20_LooseFilesMovedTargetKept ==
    AppliedLooseFiles =>
        LET s == last.approved[1]
            listed == {s.files[i] : i \in 1..Len(s.files)} \cap DOMAIN last.pre_fs.files
        IN  /\ \A p \in listed :
                  /\ last.pre_fs.files[p] \in IdsIn(fs, s.target_folder)
                  /\ ~(p \in DOMAIN fs.files /\ fs.files[p] = last.pre_fs.files[p])
            /\ IdsIn(last.pre_fs, s.target_folder) \subseteq IdsIn(fs, s.target_folder)

\* C28: each apply or explode that returns true adds exactly one new journal
\* file and leaves every earlier journal file in place, also when two batches
\* complete within the same clock second.
C28_OneJournalFilePerBatch ==
    (last.op \in {"apply", "explode"} /\ last.ret) =>
        /\ last.pre_logs \subseteq logs
        /\ Cardinality(logs) = Cardinality(last.pre_logs) + 1

\* The apply of one merge_similar_folders suggestion that returned true.
AppliedMerge ==
    /\ last.op = "apply" /\ last.ret
    /\ Len(last.approved) = 1
    /\ last.approved[1].type = "merge_similar_folders"

\* target_path of a merge_similar_folders suggestion.
MergeTarget(s) == Join(Dirname(s.folders[1]), s.suggested_name)

\* The journal file of the batch of second ts.
JournalOf(dir, ts) == CHOOSE j \in ChangeLogs(dir) : j.ts = ts

\* The directories and the files at or below path p, relative to p.
Subtree(f, p) ==
    [dirs |-> {Rebase(q, p, << >>) : q \in {d \in f.dirs : IsPrefix(p, d)}},
     files |-> {<<Rebase(q, p, << >>), f.files[q]>> :
                   q \in {d \in DOMAIN f.files : IsPrefix(p, d)}}]

\* The old and new path of the i-th entry of a rename map.
OldPath(s, i) == s.suggested_names[i][1]

NewPath(s, i) == Join(Dirname(OldPath(s, i)), s.suggested_names[i][2])

\* The i-th entry's new path exists before the apply and no entry of the map
\* renames a folder at or above it.
NewPathTaken(f, s, i) ==
    /\ Exists(f, OldPath(s, i))
    /\ Exists(f, NewPath(s, i))
    /\ \A j \in 1..Len(s.suggested_names) : ~IsPrefix(OldPath(s, j), NewPath(s, i))

\* The last operation is an undo that returned true and replayed a journal of
\* one rename_for_consistency change.
UndoneRename ==
    /\ last.op = "undo" /\ last.ret /\ last.selected
    /\ last.journal.readable
    /\ Len(last.journal.changes) = 1
    /\ last.journal.changes[1].suggestion.type = "rename_for_consistency"

\* C22: an apply of a rename_for_consistency suggestion that returned true
\* left an entry whose new path was taken as it was, old and new path with
\* all below them, and wrote no entry for it in the journal's renamed map:
\* every recorded entry went to a path that was free.  An undo of such a
\* journal that returned true renamed back the recorded entries whose new
\* path still existed and changed nothing else.
C22_RenameSkipsTakenPath ==
    /\ (/\ last.op = "apply" /\ last.ret
         /\ Len(last.approved) = 1
         /\ last.approved[1].type = "rename_for_consistency") =>
            LET s == last.approved[1]
                renamed == JournalOf(logs, last.ts).changes[1].result.renamed
            IN  /\ \A i \in 1..Len(s.suggested_names) :
                      NewPathTaken(last.pre_fs, s, i) =>
                          /\ Subtree(fs, OldPath(s, i)) = Subtree(last.pre_fs, OldPath(s, i))
                          /\ Subtree(fs, NewPath(s, i)) = Subtree(last.pre_fs, NewPath(s, i))
                          /\ \A k \in 1..Len(renamed) : renamed[k].from # OldPath(s, i)
                /\ \A k \in 1..Len(renamed) :
                      /\ ~Exists(last.pre_fs, renamed[k].to)
                      /\ Subtree(fs, renamed[k].to) = Subtree(last.pre_fs, renamed[k].from)
    /\ UndoneRename =>
            LET renamed == last.journal.changes[1].result.renamed
                back == {k \in 1..Len(renamed) : Exists(last.pre_fs, renamed[k].to)}
                touched(p) == \E k \in back : \/ IsPrefix(renamed[k].to, p)
                                               \/ IsPrefix(renamed[k].from, p)
            IN  /\ \A k \in back :
                      /\ ~Exists(fs, renamed[k].to)
                      /\ Subtree(fs, renamed[k].from) = Subtree(last.pre_fs, renamed[k].to)
                /\ {p \in fs.dirs : ~touched(p)} = {p \in last.pre_fs.dirs : ~touched(p)}
                /\ \A p \in (DOMAIN fs.files) \cup (DOMAIN last.pre_fs.files) :
                      ~touched(p) =>
                          /\ p \in DOMAIN fs.files /\ p \in DOMAIN last.pre_fs.files
                          /\ fs.files[p] = last.pre_fs.files[p]

\* An undo renamed back the one recorded entry of a rename map that had a
\* second entry whose new path was taken.
C22_Witness ==
    /\ UndoneRename
    /\ prev.op = "apply" /\ prev.ret
    /\ Len(last.journal.changes[1].suggestion.suggested_names) = 2
    /\ Len(last.journal.changes[1].result.renamed) = 1
    /\ Exists(last.pre_fs, last.journal.changes[1].result.renamed[1].to)
    /\ NewPathTaken(prev.pre_fs, last.journal.changes[1].suggestion, 1)
    /\ fs.dirs = prev.pre_fs.dirs

\* The folders a create_group or relocate suggestion is to move, with the
\* destination of each.
FolderMoves(s) ==
    IF s.type = "relocate"
    THEN <<[from |-> s.folder, to |-> Join(s.suggested_parent, Basename(s.folder))]>>
    ELSE [i \in 1..Len(s.folders) |->
            [from |-> s.folders[i],
             to |-> Join(Join(s.parent, s.suggested_name), Basename(s.folders[i]))]]

\* The folder moves a change record of a create_group or relocate suggestion
\* holds.
RecordedMoves(change) ==
    IF change.suggestion.type = "relocate"
    THEN IF change.has_result
         THEN <<[from |-> change.result.from, to |-> change.result.to]>>
         ELSE << >>
    ELSE change.result.moved

\* C23: an apply of a create_group or relocate suggestion that returned true
\* left a folder whose destination existed where it was and recorded no move
\* of it.  After an undo that directly follows and returns true, every
\* recorded folder is at its original location as it was before the apply,
\* the group directory does not exist empty, and when the group directory
\* did not exist before the apply the tree is the tree before the apply.
C23_GroupAndRelocateSkipAndUndo ==
    /\ (/\ last.op = "apply" /\ last.ret
         /\ Len(last.approved) = 1
         /\ last.approved[1].type \in {"create_group", "relocate"}) =>
            LET moves == FolderMoves(last.approved[1])
                recorded == RecordedMoves(JournalOf(logs, last.ts).changes[1])
            IN  \A i \in 1..Len(moves) :
                    (Exists(last.pre_fs, moves[i].from) /\ Exists(last.pre_fs, moves[i].to)) =>
                        /\ Subtree(fs, moves[i].from) = Subtree(last.pre_fs, moves[i].from)
                        /\ Subtree(fs, moves[i].to) = Subtree(last.pre_fs, moves[i].to)
                        /\ \A k \in 1..Len(recorded) : recorded[k].from # moves[i].from
    /\ (UndoneSingle("create_group") \/ UndoneSingle("relocate")) =>
            LET s == prev.approved[1]
                recorded == RecordedMoves(last.journal.changes[1])
                group_path == Join(s.parent, s.suggested_name)
            IN  /\ \A k \in 1..Len(recorded) :
                      /\ Subtree(fs, recorded[k].from) = Subtree(prev.pre_fs, recorded[k].from)
                      /\ ~Exists(fs, recorded[k].to)
                /\ s.type = "create_group" =>
                      /\ ~(IsDir(fs, group_path) /\ Entries(fs, group_path) = {})
                      /\ ~Exists(prev.pre_fs, group_path) => fs = prev.pre_fs

\* An undo moved back the one recorded folder of a create_group suggestion
\* whose other folder had found its destination taken.
C23_Witness ==
    /\ UndoneSingle("create_group")
    /\ Len(prev.approved[1].folders) = 2
    /\ Len(last.journal.changes[1].result.moved) = 1
    /\ Exists(prev.pre_fs, FolderMoves(prev.approved[1])[1].to)
    /\ Exists(fs, last.journal.changes[1].result.moved[1].from)

\* The identities of the files at any depth below directory d.
IdsBelow(f, d) == {f.files[p] : p \in {q \in DOMAIN f.files : IsPrefix(d, q)}}

\* The identities of the files below the source folders of suggestion s.
IdsBelowSources(f, s) == UNION {IdsBelow(f, s.folders[i]) : i \in 1..Len(s.folders)}

\* C27: after an apply of a merge_similar_folders suggestion returned true,
\* every file that was below a source folder is below the target folder, and
\* when the target is new it holds as many files as the sources held.
C27_MergeKeepsEveryFile ==
    AppliedMerge =>
        /\ IdsBelowSources(last.pre_fs, last.approved[1])
              \subseteq IdsBelow(fs, MergeTarget(last.approved[1]))
        /\ ~Exists(last.pre_fs, MergeTarget(last.approved[1])) =>
              Cardinality(IdsBelow(fs, MergeTarget(last.approved[1])))
                = Cardinality(IdsBelowSources(last.pre_fs, last.approved[1]))

\* C30: when the target path of an applied merge_similar_folders suggestion
\* is the path of one of its source folders, every file that was in that
\* folder before the merge is at the same path after it.
C30_MergeIntoSourceKeepsNames ==
    (/\ AppliedMerge
     /\ \E i \in 1..Len(last.approved[1].folders) :
            last.approved[1].folders[i] = MergeTarget(last.approved[1])) =>
        \A p \in DOMAIN last.pre_fs.files :
            IsPrefix(MergeTarget(last.approved[1]), p) =>
                (p \in DOMAIN fs.files /\ fs.files[p] = last.pre_fs.files[p])

(***************************************************************************)
(* Strings.  A name is spelled as the sequence of its characters           *)
(* (<<"a", "_", "1">> is "a_1"); the operators below are the methods of    *)
(* Python's str and the regular expressions the program applies to names.  *)
(***************************************************************************)
LowerChars ==
    <<"a", "b", "c", "d", "e", "f", "g", "h", "i", "j", "k", "l", "m",
      "n", "o", "p", "q", "r", "s", "t", "u", "v", "w", "x", "y", "z">>

UpperChars ==
    <<"A", "B", "C", "D", "E", "F", "G", "H", "I", "J", "K", "L", "M",
      "N", "O", "P", "Q", "R", "S", "T", "U", "V", "W", "X", "Y", "Z">>

DigitChars == <<"0", "1", "2", "3", "4", "5", "6", "7", "8", "9">>

\* The characters of the class [_\-\s] that occur in the names of the model.
SeparatorChars == {"_", "-", " "}

IsLowerChar(c) == \E k \in 1..26 : LowerChars[k] = c

IsUpperChar(c) == \E k \in 1..26 : UpperChars[k] = c

IsDigitChar(c) == \E k \in 1..10 : DigitChars[k] = c

ToLower(c) ==
    IF IsUpperChar(c) THEN LowerChars[CHOOSE k \in 1..26 : UpperChars[k] = c] ELSE c

ToUpper(c) ==
    IF IsLowerChar(c) THEN UpperChars[CHOOSE k \in 1..26 : LowerChars[k] = c] ELSE c

\* str.lower(), str.upper()
Lower(s) == [k \in 1..Len(s) |-> ToLower(s[k])]

Upper(s) == [k \in 1..Len(s) |-> ToUpper(s[k])]

\* str.islower(), str.isupper(): some cased character, and none of the other case.
IsLower(s) ==
    /\ \E k \in 1..Len(s) : IsLowerChar(s[k])
    /\ \A k \in 1..Len(s) : ~IsUpperChar(s[k])

IsUpper(s) ==
    /\ \E k \in 1..Len(s) : IsUpperChar(s[k])
    /\ \A k \in 1..Len(s) : ~IsLowerChar(s[k])

\* s[1:]
Rest(s) == SubSeq(s, 2, Len(s))

\* w[0].upper() + w[1:].lower()
Capitalize(w) == IF w = << >> THEN << >> ELSE <<ToUpper(w[1])>> \o Lower(Rest(w))

\* c in s, s.count(c)
HasChar(s, c) == \E k \in 1..Len(s) : s[k] = c

CountChar(s, c) == Cardinality({k \in 1..Len(s) : s[k] = c})

\* s.startswith(t), t in s
StartsWith(s, t) == Len(t) <= Len(s) /\ SubSeq(s, 1, Len(t)) = t

Contains(s, t) == \E k \in 0..(Len(s) - Len(t)) : SubSeq(s, k + 1, k + Len(t)) = t

\* s.replace(c, d) for characters c and d
ReplaceChar(s, c, d) == [k \in 1..Len(s) |-> IF s[k] = c THEN d ELSE s[k]]

\* os.path.commonprefix of a sequence of names
RECURSIVE CommonPrefixLen(_, _)
CommonPrefixLen(names, k) ==
    IF \A n \in 1..Len(names) :
          Len(names[n]) > k /\ names[n][k + 1] = names[1][k + 1]
    THEN CommonPrefixLen(names, k + 1)
    ELSE k

CommonPrefix(names) ==
    IF names = << >> THEN << >> ELSE SubSeq(names[1], 1, CommonPrefixLen(names, 0))

\* s.rstrip('_- ')
RECURSIVE RStripSeparators(_)
RStripSeparators(s) ==
    IF s # << >> /\ s[Len(s)] \in SeparatorChars
    THEN RStripSeparators(SubSeq(s, 1, Len(s) - 1))
    ELSE s

(***************************************************************************)
(* difflib.SequenceMatcher(None, a, b).ratio() for names shorter than 200  *)
(* characters (no junk): 2 * M / T, M the characters in matching blocks.   *)
(***************************************************************************)
\* The length of the common run of a from i and b from j, within a[..ahi]
\* and b[..bhi].
RECURSIVE RunLength(_, _, _, _, _, _)
RunLength(a, b, i, j, ahi, bhi) ==
    IF i > ahi \/ j > bhi \/ a[i] # b[j] THEN 0
    ELSE 1 + RunLength(a, b, i + 1, j + 1, ahi, bhi)

MaxOf(S) == CHOOSE x \in S : \A y \in S : y <= x

MinOf(S) == CHOOSE x \in S : \A y \in S : x <= y

\* find_longest_match(alo, ahi, blo, bhi): <<i, j, k>>, the longest block,
\* of those the one that starts earliest in a, of those the earliest in b.
FindLongestMatch(a, b, alo, ahi, blo, bhi) ==
    LET Size(i, j) == RunLength(a, b, i, j, ahi, bhi)
        Earliest(k) ==
            LET At(i) == <<i, MinOf({j \in blo..bhi : Size(i, j) = k}), k>>
            IN  At(MinOf({i \in alo..ahi : \E j \in blo..bhi : Size(i, j) = k}))
    IN  Earliest(MaxOf({Size(i, j) : i \in alo..ahi, j \in blo..bhi}))

\* get_matching_blocks: the longest block, then the blocks to its left and
\* to its right; the sum of their sizes.
RECURSIVE MatchingChars(_, _, _, _, _, _)
MatchingChars(a, b, alo, ahi, blo, bhi) ==
    IF alo > ahi \/ blo > bhi THEN 0
    ELSE LET Split(m) ==
                 IF m[3] = 0 THEN 0
                 ELSE m[3]
                      + MatchingChars(a, b, alo, m[1] - 1, blo, m[2] - 1)
                      + MatchingChars(a, b, m[1] + m[3], ahi, m[2] + m[3], bhi)
         IN  Split(FindLongestMatch(a, b, alo, ahi, blo, bhi))

\* ratio() as the fraction <<numerator, denominator>>; 1.0 for two empty names.
Ratio(a, b) ==
    IF Len(a) + Len(b) = 0 THEN <<1, 1>>
    ELSE <<2 * MatchingChars(a, b, 1, Len(a), 1, Len(b)), Len(a) + Len(b)>>

\* r >= num/den, r > num/den
FracGE(r, num, den) == r[1] * den >= num * r[2]

FracGT(r, num, den) == r[1] * den > num * r[2]

(***************************************************************************)
(* The suggestion engine.  It reads the snapshot of a scan: here the       *)
(* subdirectories of the root and the subdirectories of each of them, in   *)
(* the order os.scandir listed them, and the files that are directly in    *)
(* the root.                                                               *)
(***************************************************************************)
\* The snapshot of a root with the given subdirectories (names) and files;
\* children[k] lists the subdirectories of the k-th subdirectory.
NestedSnapshot(subdirectories, children, files) ==
    [scanned |-> TRUE, subdirectories |-> subdirectories, children |-> children,
     files |-> files]

\* The snapshot of a root whose subdirectories have no subdirectories.
Snapshot(subdirectories, files) ==
    NestedSnapshot(subdirectories, [k \in 1..Len(subdirectories) |-> << >>], files)

\* _extract_all_folder_paths of the subdirectories from the k-th on: each
\* subdirectory, followed by its own subdirectories.
RECURSIVE ExtractSubdirectoryPaths(_, _)
ExtractSubdirectoryPaths(snap, k) ==
    IF k > Len(snap.subdirectories) THEN << >>
    ELSE <<Join(root_path, snap.subdirectories[k])>>
           \o [j \in 1..Len(snap.children[k]) |->
                  Join(Join(root_path, snap.subdirectories[k]), snap.children[k][j])]
           \o ExtractSubdirectoryPaths(snap, k + 1)

\* _extract_all_folder_paths: the root, then the folders below it in the
\* order of a depth-first walk.
ExtractAllFolderPaths(snap) == <<root_path>> \o ExtractSubdirectoryPaths(snap, 1)

SeqToSet(q) == {q[k] : k \in 1..Len(q)}

\* _find_similar_folders: the loop over folder1, with the set of processed paths.
RECURSIVE FindSimilarLoop(_, _, _, _)
FindSimilarLoop(all_folder_paths, i, processed, similar_groups) ==
    IF i > Len(all_folder_paths) THEN similar_groups
    ELSE IF all_folder_paths[i] \in processed
    THEN FindSimilarLoop(all_folder_paths, i + 1, processed, similar_groups)
    ELSE LET Grouped(current_group) ==
                 IF Len(current_group) > 1
                 THEN FindSimilarLoop(all_folder_paths, i + 1,
                                      processed \cup SeqToSet(current_group),
                                      Append(similar_groups, current_group))
                 ELSE FindSimilarLoop(all_folder_paths, i + 1, processed, similar_groups)
         IN  Grouped(<<all_folder_paths[i]>> \o
                     SelectSeq(all_folder_paths,
                               LAMBDA folder2 :
                                   /\ folder2 # all_folder_paths[i]
                                   /\ folder2 \notin processed
                                   /\ FracGE(Ratio(Basename(all_folder_paths[i]),
                                                   Basename(folder2)), 8, 10)))

\* _find_similar_folders(folder_info, similarity_threshold=0.8)
FindSimilarFolders(snap) == FindSimilarLoop(ExtractAllFolderPaths(snap), 1, {}, << >>)

\* min(names, key=len): the first of the shortest names.
Shortest(names) ==
    names[MinOf({k \in 1..Len(names) : \A n \in 1..Len(names) : Len(names[k]) <= Len(names[n])})]

\* _suggest_common_name
SuggestCommonName(folder_group) ==
    LET names == [k \in 1..Len(folder_group) |-> Basename(folder_group[k])]
    IN  IF Len(CommonPrefix(names)) > 3
        THEN RStripSeparators(CommonPrefix(names)) \o <<"_", "c", "o", "m", "b", "i", "n", "e", "d">>
        ELSE Shortest(names)

\* suggest_improvements: one merge_similar_folders suggestion for each group.
MergeSuggestions(snap) ==
    LET Of(similar_folders) ==
            [k \in 1..Len(similar_folders) |->
                [Suggestion("merge_similar_folders") EXCEPT
                    !.folders = similar_folders[k],
                    !.suggested_name = SuggestCommonName(similar_folders[k])]]
    IN  Of(FindSimilarFolders(snap))

\* any(f"{i:02d}" in name for i in range(1, 100)): two digits in a row, not "00".
HasPaddedNumber(name) ==
    \E k \in 1..(Len(name) - 1) :
        /\ IsDigitChar(name[k]) /\ IsDigitChar(name[k + 1])
        /\ ~(name[k] = "0" /\ name[k + 1] = "0")

\* any(str(i) in name for i in range(1, 100)), when HasPaddedNumber is false.
HasNumber(name) == \E k \in 1..Len(name) : IsDigitChar(name[k]) /\ name[k] # "0"

\* _find_inconsistent_naming: the patterns one folder name is appended to, in
\* the order of the three detections.
PatternsOfName(name) ==
    (IF IsLower(name) THEN <<"lowercase">>
     ELSE IF IsUpper(name) THEN <<"uppercase">>
     ELSE IF IsUpperChar(name[1]) /\ IsLower(Rest(name)) THEN <<"capitalized">>
     ELSE << >>)
    \o
    (IF HasChar(name, "_") THEN <<"underscore_separated">>
     ELSE IF HasChar(name, "-") THEN <<"hyphen_separated">>
     ELSE IF HasChar(name, " ") THEN <<"space_separated">>
     ELSE << >>)
    \o
    (IF \E k \in 1..Len(name) : IsDigitChar(name[k])
     THEN IF HasPaddedNumber(name) THEN <<"numbered_sequence_padded">>
          ELSE IF HasNumber(name) THEN <<"numbered_sequence">>
          ELSE << >>
     ELSE << >>)

\* The appends to the patterns dictionary, in the order they are made.
RECURSIVE PatternEntries(_, _)
PatternEntries(all_folders, k) ==
    IF k > Len(all_folders) THEN << >>
    ELSE [n \in 1..Len(PatternsOfName(Basename(all_folders[k]))) |->
             [pattern |-> PatternsOfName(Basename(all_folders[k]))[n],
              folder |-> all_folders[k]]]
         \o PatternEntries(all_folders, k + 1)

\* The keys of a dictionary, in insertion order.
RECURSIVE KeysInOrder(_, _)
KeysInOrder(entries, seen) ==
    IF entries = << >> THEN << >>
    ELSE IF Head(entries).pattern \in seen THEN KeysInOrder(Tail(entries), seen)
    ELSE <<Head(entries).pattern>>
         \o KeysInOrder(Tail(entries), seen \cup {Head(entries).pattern})

FoldersOfPattern(entries, pattern) ==
    LET Of(selected) == [k \in 1..Len(selected) |-> selected[k].folder]
    IN  Of(SelectSeq(entries, LAMBDA e : e.pattern = pattern))

\* _find_inconsistent_naming: the patterns that hold more than one folder.
FindInconsistentNaming(snap) ==
    LET Filtered(entries) ==
            SelectSeq([k \in 1..Len(KeysInOrder(entries, {})) |->
                          [pattern |-> KeysInOrder(entries, {})[k],
                           folders |-> FoldersOfPattern(entries, KeysInOrder(entries, {})[k])]],
                      LAMBDA g : Len(g.folders) > 1)
    IN  Filtered(PatternEntries(ExtractAllFolderPaths(snap), 1))

\* str(i) and f"{i:02d}" for i in 1..99
NumStr(i) ==
    IF i < 10 THEN <<DigitChars[i + 1]>>
    ELSE <<DigitChars[(i \div 10) + 1], DigitChars[(i % 10) + 1]>>

PaddedNumStr(i) == IF i < 10 THEN <<"0", DigitChars[i + 1]>> ELSE NumStr(i)

\* s.replace(t, u) for non-empty t
RECURSIVE ReplaceAll(_, _, _)
ReplaceAll(s, t, u) ==
    IF Len(s) < Len(t) THEN s
    ELSE IF StartsWith(s, t) THEN u \o ReplaceAll(SubSeq(s, Len(t) + 1, Len(s)), t, u)
    ELSE <<s[1]>> \o ReplaceAll(Rest(s), t, u)

\* "for i in range(1, 100): if str(i) in new_name and f'{i:02d}' not in new_name"
RECURSIVE PadNumbers(_, _)
PadNumbers(new_name, i) ==
    IF i > 99 THEN new_name
    ELSE IF Contains(new_name, NumStr(i)) /\ ~Contains(new_name, PaddedNumStr(i))
    THEN PadNumbers(ReplaceAll(new_name, NumStr(i), PaddedNumStr(i)), i + 1)
    ELSE PadNumbers(new_name, i + 1)

\* _suggest_consistent_names: the new name of one folder.
ConsistentName(original_name, pattern) ==
    CASE pattern = "lowercase" -> Lower(original_name)
      [] pattern = "uppercase" -> Upper(original_name)
      [] pattern = "capitalized" -> Capitalize(original_name)
      [] pattern = "underscore_separated" ->
            ReplaceChar(ReplaceChar(original_name, "-", "_"), " ", "_")
      [] pattern = "hyphen_separated" ->
            ReplaceChar(ReplaceChar(original_name, "_", "-"), " ", "-")
      [] pattern = "space_separated" ->
            ReplaceChar(ReplaceChar(original_name, "_", " "), "-", " ")
      [] pattern = "numbered_sequence_padded" -> PadNumbers(original_name, 1)
      [] OTHER -> original_name

\* _suggest_consistent_names: <<path, new name>> for the folders whose name changes.
SuggestConsistentNames(folders, pattern) ==
    SelectSeq([k \in 1..Len(folders) |->
                  <<folders[k], ConsistentName(Basename(folders[k]), pattern)>>],
              LAMBDA pair : pair[2] # Basename(pair[1]))

\* suggest_improvements: one rename_for_consistency suggestion for each pattern.
RenameSuggestions(snap) ==
    LET Of(inconsistent_naming) ==
            [k \in 1..Len(inconsistent_naming) |->
                [Suggestion("rename_for_consistency") EXCEPT
                    !.folders = inconsistent_naming[k].folders,
                    !.suggested_names =
                        SuggestConsistentNames(inconsistent_naming[k].folders,
                                               inconsistent_naming[k].pattern)]]
    IN  Of(FindInconsistentNaming(snap))

\* _build_folder_graph: graph.nodes(), in the order the edges were added.
GraphNodes(snap) ==
    IF snap.subdirectories = << >> THEN << >> ELSE ExtractAllFolderPaths(snap)

\* name[:3]
FirstThree(name) == SubSeq(name, 1, IF Len(name) < 3 THEN Len(name) ELSE 3)

\* _find_potential_groups: "check for common patterns in names".
NamesRelated(child1_name, child2_name) ==
    \/ StartsWith(child1_name, FirstThree(child2_name))
    \/ StartsWith(child2_name, FirstThree(child1_name))
    \/ FracGT(Ratio(child1_name, child2_name), 5, 10)

\* _find_potential_groups: the loop over child1 for the children of one parent.
RECURSIVE PotentialGroupsLoop(_, _, _, _)
PotentialGroupsLoop(children, i, processed, similar_children) ==
    IF i > Len(children) THEN similar_children
    ELSE IF children[i] \in processed
    THEN PotentialGroupsLoop(children, i + 1, processed, similar_children)
    ELSE LET Grouped(current_group) ==
                 IF Len(current_group) >= 3
                 THEN PotentialGroupsLoop(children, i + 1,
                                          processed \cup SeqToSet(current_group),
                                          Append(similar_children, current_group))
                 ELSE PotentialGroupsLoop(children, i + 1, processed, similar_children)
         IN  Grouped(<<children[i]>> \o
                     SelectSeq(SubSeq(children, i + 1, Len(children)),
                               LAMBDA child2 :
                                   /\ child2 \notin processed
                                   /\ NamesRelated(Lower(Basename(children[i])),
                                                   Lower(Basename(child2)))))

\* list(graph.successors(parent)): the subdirectories of parent, as listed.
Successors(snap, parent) ==
    SelectSeq(GraphNodes(snap), LAMBDA node : node # root_path /\ Dirname(node) = parent)

\* _find_potential_groups: the loop over the parents, from the k-th node on.
RECURSIVE SiblingGroups(_, _)
SiblingGroups(snap, k) ==
    IF k > Len(GraphNodes(snap)) THEN << >>
    ELSE (IF Len(Successors(snap, GraphNodes(snap)[k])) < 3 THEN << >>
          ELSE PotentialGroupsLoop(Successors(snap, GraphNodes(snap)[k]), 1, {}, << >>))
           \o SiblingGroups(snap, k + 1)

\* _find_potential_groups
FindPotentialGroups(snap) == SiblingGroups(snap, 1)

\* re.split on the characters of seps: the pieces, empty ones included.
RECURSIVE SplitOn(_, _, _)
SplitOn(s, seps, piece) ==
    IF s = << >> THEN <<piece>>
    ELSE IF s[1] \in seps THEN <<piece>> \o SplitOn(Rest(s), seps, << >>)
    ELSE SplitOn(Rest(s), seps, Append(piece, s[1]))

NonEmpty(pieces) == SelectSeq(pieces, LAMBDA w : w # << >>)

\* sep.join(words)
RECURSIVE JoinWith(_, _)
JoinWith(words, sep) ==
    IF words = << >> THEN << >>
    ELSE IF Len(words) = 1 THEN words[1]
    ELSE words[1] \o sep \o JoinWith(Tail(words), sep)

\* "c if c.isalnum() or c.isspace() else ' '"
AlnumOrSpace(s) ==
    [k \in 1..Len(s) |->
        IF IsLowerChar(s[k]) \/ IsUpperChar(s[k]) \/ IsDigitChar(s[k]) THEN s[k] ELSE " "]

\* The distinct elements of a sequence, in the order of their first occurrence.
RECURSIVE Distinct(_, _)
Distinct(q, seen) ==
    IF q = << >> THEN << >>
    ELSE IF Head(q) \in seen THEN Distinct(Tail(q), seen)
    ELSE <<Head(q)>> \o Distinct(Tail(q), seen \cup {Head(q)})

Occurrences(q, x) == Cardinality({k \in 1..Len(q) : q[k] = x})

\* max(word_count.items(), key=lambda x: x[1])[0]: the first most frequent word.
MostFrequent(word_list) ==
    LET First(keys) ==
            keys[MinOf({k \in 1..Len(keys) :
                          \A n \in 1..Len(keys) :
                              Occurrences(word_list, keys[n]) <= Occurrences(word_list, keys[k])})]
    IN  First(Distinct(word_list, {}))

\* _suggest_group_name
SuggestGroupName(group) ==
    LET names == [k \in 1..Len(group) |-> Basename(group[k])]
        Keyword(word_list) ==
            IF word_list # << >> THEN MostFrequent(word_list) \o <<"_", "g", "r", "o", "u", "p">>
            ELSE <<"g", "r", "o", "u", "p", "e", "d", "_", "f", "o", "l", "d", "e", "r", "s">>
    IN  IF Len(CommonPrefix(names)) > 2
        THEN RStripSeparators(CommonPrefix(names)) \o <<"_", "g", "r", "o", "u", "p">>
        ELSE Keyword(SelectSeq(NonEmpty(SplitOn(AlnumOrSpace(Lower(JoinWith(names, <<" ">>))),
                                                {" "}, << >>)),
                               LAMBDA word : Len(word) > 2))

\* score = ratio (+ 0.2 when one name contains the other), as a fraction.
RelocationScore(node_name, parent_name) ==
    LET Plus(r) ==
            IF Contains(parent_name, node_name) \/ Contains(node_name, parent_name)
            THEN <<5 * r[1] + r[2], 5 * r[2]>>
            ELSE r
    IN  Plus(Ratio(node_name, parent_name))

\* _find_relocation_opportunities: the loop over potential_parent for one
\* node; best_match = << >> is None.
RECURSIVE BestParent(_, _, _, _, _)
BestParent(node, nodes, k, best_match, best_score) ==
    IF k > Len(nodes) THEN best_match
    ELSE IF nodes[k] = Dirname(node) \/ nodes[k] = node
    THEN BestParent(node, nodes, k + 1, best_match, best_score)
    ELSE LET Scored(score) ==
                 IF score[1] * best_score[2] > best_score[1] * score[2]
                 THEN BestParent(node, nodes, k + 1, nodes[k], score)
                 ELSE BestParent(node, nodes, k + 1, best_match, best_score)
         IN  Scored(RelocationScore(Lower(Basename(node)), Lower(Basename(nodes[k]))))

\* _find_relocation_opportunities: <<node, best_match>> for the nodes that have one.
FindRelocationOpportunities(snap) ==
    SelectSeq([k \in 1..(Len(GraphNodes(snap)) - 1) |->
                  <<GraphNodes(snap)[k + 1],
                    BestParent(GraphNodes(snap)[k + 1], GraphNodes(snap), 1, << >>, <<3, 10>>)>>],
              LAMBDA pair : pair[2] # << >>)

\* _suggest_hierarchy_improvements: the create_group suggestions, then the
\* relocate suggestions.
SuggestHierarchyImprovements(snap) ==
    LET Groups(potential_groups) ==
            [k \in 1..Len(potential_groups) |->
                [Suggestion("create_group") EXCEPT
                    !.folders = potential_groups[k],
                    !.parent = Dirname(potential_groups[k][1]),
                    !.suggested_name = SuggestGroupName(potential_groups[k])]]
        Relocations(relocations) ==
            [k \in 1..Len(relocations) |->
                [Suggestion("relocate") EXCEPT
                    !.folder = relocations[k][1],
                    !.suggested_parent = relocations[k][2]]]
    IN  Groups(FindPotentialGroups(snap)) \o Relocations(FindRelocationOpportunities(snap))

\* file_info['extension'] of a root file: <<".jpg">>, or << >> for none.
Extension(path) == SplitExt(Basename(path))[2]

\* extension[1:], spelled out, for the extensions of the model.
ExtWithoutDot(ext) ==
    CASE ext = <<".jpg">> -> <<"j", "p", "g">>
      [] ext = <<".pdf">> -> <<"p", "d", "f">>
      [] ext = <<".txt">> -> <<"t", "x", "t">>

\* _find_suitable_folder_for_files: common_mappings, for the extensions of the model.
CommonMappings(ext) ==
    CASE ext = <<".jpg">> -> {<<"I", "m", "a", "g", "e", "s">>, <<"P", "h", "o", "t", "o", "s">>, <<"P", "i", "c", "t", "u", "r", "e", "s">>, <<"J", "P", "G", "s">>}
      [] ext = <<".pdf">> -> {<<"D", "o", "c", "u", "m", "e", "n", "t", "s">>, <<"P", "D", "F", "s">>}
      [] ext = <<".txt">> -> {<<"T", "e", "x", "t", "_", "F", "i", "l", "e", "s">>, <<"D", "o", "c", "u", "m", "e", "n", "t", "s">>, <<"N", "o", "t", "e", "s">>}

PossibleFolderNames(ext) ==
    {ExtWithoutDot(ext), Capitalize(ExtWithoutDot(ext)), Upper(ExtWithoutDot(ext)),
     ExtWithoutDot(ext) \o <<"_", "f", "i", "l", "e", "s">>,
     Capitalize(ExtWithoutDot(ext)) \o <<"_", "F", "i", "l", "e", "s">>,
     Upper(ExtWithoutDot(ext)) \o <<"_", "F", "I", "L", "E", "S">>}
      \cup CommonMappings(ext)

\* FindSuitableFolderForFiles that never finds an existing folder.
FindSuitableFolderNever(snap, ext) == << >>

\* _find_suitable_folder_for_files: the first folder below the root, in the
\* order of _extract_all_folder_paths, with one of the possible names; << >>
\* for None.  The second loop of the function reads folder.get('files') of
\* the entries of _extract_all_folder_paths, which have no such key, so it
\* never finds a folder.
FindSuitableFolderForFiles(snap, ext) ==
    LET Found(matching) == IF matching = << >> THEN << >> ELSE matching[1]
    IN  Found(SelectSeq(Tail(ExtractAllFolderPaths(snap)),
                        LAMBDA folder : Basename(folder) \in PossibleFolderNames(ext)))

\* _suggest_folder_name_for_extension: common_names, for the extensions of the model.
SuggestFolderNameForExtension(ext) ==
    CASE ext = <<".jpg">> -> <<"I", "m", "a", "g", "e", "s">>
      [] ext = <<".pdf">> -> <<"D", "o", "c", "u", "m", "e", "n", "t", "s">>
      [] ext = <<".txt">> -> <<"T", "e", "x", "t", "_", "F", "i", "l", "e", "s">>
      [] OTHER -> Capitalize(ExtWithoutDot(ext)) \o <<"_", "F", "i", "l", "e", "s">>

\* _find_loose_files_to_group: the suggestion for one significant extension.
LooseSuggestion(snap, ext, files) ==
    LET To(target_folder) ==
            IF target_folder # << >>
            THEN [Suggestion("group_loose_files") EXCEPT
                    !.files = files, !.target_folder = target_folder,
                    !.is_new_folder = FALSE]
            ELSE [Suggestion("group_loose_files") EXCEPT
                    !.files = files,
                    !.target_folder = Join(root_path, SuggestFolderNameForExtension(ext)),
                    !.is_new_folder = TRUE]
    IN  To(FindSuitableFolderForFiles(snap, ext))

\* The files of one extension, in the order of the snapshot.
FilesOfExtension(root_files, ext) == SelectSeq(root_files, LAMBDA file : Extension(file) = ext)

\* "at least 3 files and a non-empty extension", in the order the
\* extensions first occur among the root files.
SignificantExtensions(root_files) ==
    SelectSeq(Distinct([k \in 1..Len(root_files) |-> Extension(root_files[k])], {}),
              LAMBDA ext : ext # << >> /\ Len(FilesOfExtension(root_files, ext)) >= 3)

\* _find_loose_files_to_group
FindLooseFilesToGroup(snap) ==
    IF ~snap.scanned \/ Len(snap.files) < 5 THEN << >>
    ELSE LET Of(significant) ==
                 [k \in 1..Len(significant) |->
                     LooseSuggestion(snap, significant[k],
                                     FilesOfExtension(snap.files, significant[k]))]
             Misc(misc_files) ==
                 IF Len(misc_files) >= 5
                 THEN <<[Suggestion("group_loose_files") EXCEPT
                           !.files = misc_files,
                           !.target_folder =
                               Join(root_path, <<"M", "i", "s", "c", "e", "l", "l", "a", "n", "e", "o", "u", "s", "_", "F", "i", "l", "e", "s">>),
                           !.is_new_folder = TRUE]>>
                 ELSE << >>
         IN  Of(SignificantExtensions(snap.files))
             \o Misc(SelectSeq(snap.files,
                               LAMBDA file :
                                   Extension(file) \notin
                                       SeqToSet(SignificantExtensions(snap.files))))

\* suggest_improvements with the loose-file suggestions first.
suggest_improvements_loose_first(snap) ==
    FindLooseFilesToGroup(snap) \o MergeSuggestions(snap)
      \o RenameSuggestions(snap) \o SuggestHierarchyImprovements(snap)

\* suggest_improvements()
suggest_improvements(snap) ==
    MergeSuggestions(snap) \o RenameSuggestions(snap)
      \o SuggestHierarchyImprovements(snap) \o FindLooseFilesToGroup(snap)

(***************************************************************************)
(* The specification of the suggestion engine: a snapshot is drawn, and    *)
(* one function of the engine is applied to it.                            *)
(***************************************************************************)
\* The most subdirectories of a drawn snapshot.
MaxFolders == 4

folder1 == <<"f", "o", "l", "d", "e", "r", "1">>
folder2 == <<"f", "o", "l", "d", "e", "r", "2">>
Folder1_Similar == <<"F", "o", "l", "d", "e", "r", "1", "_", "S", "i", "m", "i", "l", "a", "r">>
Images == <<"I", "m", "a", "g", "e", "s">>
Documents == <<"D", "o", "c", "u", "m", "e", "n", "t", "s">>

\* The names the subdirectories of a snapshot are drawn from.
FolderNames == {folder1, folder2, Folder1_Similar, Images, Documents}

\* The sequences without repetition of at most n elements of S.
RECURSIVE Arrangements(_, _)
Arrangements(S, n) ==
    IF n = 0 THEN {<< >>}
    ELSE {<< >>} \cup {<<x>> \o q : x \in S, q \in Arrangements(S, n - 1)}

ListingOrders == {q \in Arrangements(FolderNames, MaxFolders) :
                     \A a, b \in 1..Len(q) : a # b => q[a] # q[b]}

\* n root files base_0 .. base_(n-1) of one extension (ext = "" for none).
RootFiles(base, ext, n) ==
    [k \in 1..n |->
        Join(root_path,
             IF ext = "" THEN <<base, DigitChars[k]>> ELSE <<base, DigitChars[k], ext>>)]

\* The root files of a snapshot: how many of each kind there are.
FileCounts ==
    {[jpg |-> 0, pdf |-> 0, txt |-> 0, none |-> 0],
     [jpg |-> 5, pdf |-> 5, txt |-> 3, none |-> 0],
     [jpg |-> 5, pdf |-> 0, txt |-> 0, none |-> 0],
     [jpg |-> 2, pdf |-> 0, txt |-> 3, none |-> 0],
     [jpg |-> 2, pdf |-> 0, txt |-> 3, none |-> 5],
     [jpg |-> 1, pdf |-> 1, txt |-> 1, none |-> 1]}

\* The two orders in which os.scandir lists the root files of the model.
RootFileListing(n, reversed) ==
    IF reversed
    THEN RootFiles("readme_", "", n.none) \o RootFiles("note_", ".txt", n.txt)
           \o RootFiles("document_", ".pdf", n.pdf) \o RootFiles("image_", ".jpg", n.jpg)
    ELSE RootFiles("image_", ".jpg", n.jpg) \o RootFiles("document_", ".pdf", n.pdf)
           \o RootFiles("note_", ".txt", n.txt) \o RootFiles("readme_", "", n.none)

SuggestInit ==
    /\ fs = InitialTree
    /\ logs = {}
    /\ clock = 1
    /\ folder_structure = NotScanned
    /\ last = NoOp
    /\ prev = NoOp
    /\ ops = 0
    /\ call = "none"
    /\ arg \in {Snapshot(subdirectories, RootFileListing(n, reversed)) :
                  subdirectories \in ListingOrders, n \in FileCounts,
                  reversed \in BOOLEAN}
    /\ returned = << >>

\* One call of a function of the engine on the drawn snapshot.
Called(name, value) ==
    /\ call = "none"
    /\ call' = name
    /\ returned' = value
    /\ UNCHANGED <<arg, organizer_vars>>

CallFindSimilarFolders == Called("_find_similar_folders", FindSimilarFolders(arg))

CallFindLooseFilesToGroup == Called("_find_loose_files_to_group", FindLooseFilesToGroup(arg))

CallSuggestImprovements == Called("suggest_improvements", suggest_improvements(arg))

SuggestNext ==
    \/ CallFindSimilarFolders
    \/ CallFindLooseFilesToGroup
    \/ CallSuggestImprovements

SuggestSpec == SuggestInit /\ [][SuggestNext]_vars

\* The names of the folders of a group of paths.
GroupNames(group) == {Basename(group[k]) : k \in 1..Len(group)}

\* C14: for a root that contains folder1, folder2 and Folder1_Similar, the
\* similar-folder detection yields a group that contains folder1 and
\* Folder1_Similar and does not contain folder2.
C14_Folder1GroupedWithFolder1Similar ==
    (/\ call = "_find_similar_folders"
     /\ {folder1, folder2, Folder1_Similar} \subseteq SeqToSet(arg.subdirectories)) =>
        \E k \in 1..Len(returned) :
            /\ {folder1, Folder1_Similar} \subseteq GroupNames(returned[k])
            /\ folder2 \notin GroupNames(returned[k])

\* The number of root files of the snapshot with extension ext.
CountOfExtension(snap, ext) == Len(FilesOfExtension(snap.files, ext))

\* The root holds 5 .jpg, 5 .pdf and 3 .txt files and nothing else, and
\* Images is the only subdirectory named like a folder for one of these types.
LooseFilesScenario ==
    /\ CountOfExtension(arg, <<".jpg">>) = 5
    /\ CountOfExtension(arg, <<".pdf">>) = 5
    /\ CountOfExtension(arg, <<".txt">>) = 3
    /\ Len(arg.files) = 13
    /\ Images \in SeqToSet(arg.subdirectories)
    /\ \A name \in SeqToSet(arg.subdirectories) \ {Images} :
          name \notin PossibleFolderNames(<<".jpg">>) \cup PossibleFolderNames(<<".pdf">>)
                        \cup PossibleFolderNames(<<".txt">>)

\* The suggestions of a list whose files have extension ext.
SuggestionsFor(suggestions, ext) ==
    SelectSeq(suggestions,
              LAMBDA sg : \E k \in 1..Len(sg.files) : Extension(sg.files[k]) = ext)

\* C15: in that scenario loose-file grouping returns exactly three
\* group_loose_files suggestions: .jpg into the existing Images folder with
\* all 5 files, .pdf and .txt into new folders with 5 and 3 files.
C15_ThreeLooseFileSuggestions ==
    (call = "_find_loose_files_to_group" /\ LooseFilesScenario) =>
        /\ Len(returned) = 3
        /\ \A k \in 1..3 : returned[k].type = "group_loose_files"
        /\ Len(SuggestionsFor(returned, <<".jpg">>)) = 1
        /\ Len(SuggestionsFor(returned, <<".pdf">>)) = 1
        /\ Len(SuggestionsFor(returned, <<".txt">>)) = 1
        /\ SuggestionsFor(returned, <<".jpg">>)[1].target_folder = Join(root_path, Images)
        /\ ~SuggestionsFor(returned, <<".jpg">>)[1].is_new_folder
        /\ SeqToSet(SuggestionsFor(returned, <<".jpg">>)[1].files)
             = SeqToSet(FilesOfExtension(arg.files, <<".jpg">>))
        /\ SuggestionsFor(returned, <<".pdf">>)[1].is_new_folder
        /\ Len(SuggestionsFor(returned, <<".pdf">>)[1].files) = 5
        /\ SuggestionsFor(returned, <<".txt">>)[1].is_new_folder
        /\ Len(SuggestionsFor(returned, <<".txt">>)[1].files) = 3

C15_Witness ==
    /\ call = "_find_loose_files_to_group"
    /\ LooseFilesScenario
    /\ Len(arg.subdirectories) > 1
    /\ Len(returned) = 3

\* The place of a kind of suggestion in the order of the claim.
KindRank(type) ==
    CASE type = "merge_similar_folders" -> 1
      [] type = "rename_for_consistency" -> 2
      [] type \in {"create_group", "relocate"} -> 3
      [] type = "group_loose_files" -> 4

\* C19: the list suggest() returns is ordered by kind: merges, renames,
\* hierarchy suggestions, loose-file suggestions.
C19_SuggestionsOrderedByKind ==
    call = "suggest_improvements" =>
        \A a, b \in 1..Len(returned) :
            a < b => KindRank(returned[a].type) <= KindRank(returned[b].type)

\* A returned list that holds a suggestion of each of the five types.
C19_Witness ==
    /\ call = "suggest_improvements"
    /\ \A type \in {"merge_similar_folders", "rename_for_consistency", "create_group",
                    "relocate", "group_loose_files"} :
          \E k \in 1..Len(returned) : returned[k].type = type

(***************************************************************************)
(* The suggestion engine on a tree of two levels, and apply_changes on the *)
(* suggestions it returns: the snapshot is drawn, the tree on disk is the  *)
(* tree of the snapshot, a function of the engine is called, and one of    *)
(* the returned suggestions is applied to the tree it came from.           *)
(***************************************************************************)
\* The most subdirectories of the root of a drawn two-level snapshot.
MaxTopFolders == 2

Text_Files == <<"T", "e", "x", "t", "_", "F", "i", "l", "e", "s">>

\* A folder named like the root.
RootNamesake == Basename(root_path)

\* A folder and a subfolder whose name starts with the folder's name.
ab == <<"a", "b">>
abc == <<"a", "b", "c">>

\* A folder and a subfolder that mix the underscore with another separator.
a_b == <<"a", "_", " ", "b">>
c_d == <<"c", "_", "-", "d">>

\* The names of the subdirectories of the root, and of their subdirectories.
TopNames == {Documents, Text_Files, RootNamesake, ab, a_b}

ChildNames == {abc, c_d}

\* The drawn snapshots: at most MaxTopFolders subdirectories in every
\* listing order, each with no subdirectory or one.
TwoLevelSnapshots ==
    UNION {{NestedSnapshot(subdirectories, children, << >>) :
               children \in [1..Len(subdirectories) ->
                               {<< >>} \cup {<<c>> : c \in ChildNames}]} :
           subdirectories \in {q \in Arrangements(TopNames, MaxTopFolders) :
                                  \A a, b \in 1..Len(q) : a # b => q[a] # q[b]}}

\* The tree on disk a snapshot was scanned from (the folders; no files).
TreeOf(snap) ==
    [dirs |-> {<< >>} \cup SeqToSet(ExtractAllFolderPaths(snap)),
     files |-> [p \in {} |-> 0]]

HierarchyInit ==
    /\ arg \in TwoLevelSnapshots
    /\ fs = TreeOf(arg)
    /\ logs = {}
    /\ clock = 1
    /\ folder_structure = NotScanned
    /\ last = NoOp
    /\ prev = NoOp
    /\ ops = 0
    /\ call = "none"
    /\ returned = << >>

\* _find_suitable_folder_for_files for the files of one extension.
CallFindSuitableFolderForFiles ==
    \E ext \in {<<".pdf">>, <<".txt">>} :
        Called("_find_suitable_folder_for_files",
               [extension |-> ext, folder |-> FindSuitableFolderForFiles(arg, ext)])

\* apply_changes on one suggestion of the list suggest_improvements
\* returned, on the tree the snapshot was scanned from.
ApplySuggested ==
    /\ call = "suggest_improvements"
    /\ ops = 0
    /\ \E k \in 1..Len(returned) : Apply(<<returned[k]>>)

HierarchyNext ==
    \/ CallSuggestImprovements
    \/ CallFindSuitableFolderForFiles
    \/ ApplySuggested

HierarchySpec == HierarchyInit /\ [][HierarchyNext]_vars

\* The set of folders of a snapshot.
FoldersOf(snap) == SeqToSet(ExtractAllFolderPaths(snap))

\* C21: the existing folder chosen for the files of an extension does not
\* depend on the order in which the scan listed the subdirectories: every
\* snapshot of the same set of folders gives the same folder, which is
\* Text_Files for .txt when a folder Text_Files exists and Documents for
\* .pdf when a folder Documents exists.
C21_ChoiceIndependentOfListingOrder ==
    call = "_find_suitable_folder_for_files" =>
        /\ \A other \in TwoLevelSnapshots :
              FoldersOf(other) = FoldersOf(arg) =>
                  FindSuitableFolderForFiles(other, returned.extension) = returned.folder
        /\ (returned.extension = <<".txt">>
               /\ Join(root_path, Text_Files) \in FoldersOf(arg)) =>
                  returned.folder = Join(root_path, Text_Files)
        /\ (returned.extension = <<".pdf">>
               /\ Join(root_path, Documents) \in FoldersOf(arg)) =>
                  returned.folder = Join(root_path, Documents)

\* C25: no merge_similar_folders suggestion of the returned list has the
\* scan root among its folders, and no rename_for_consistency suggestion has
\* the scan root as a key of its map of new names.
C25_RootNotInMergeOrRename ==
    call = "suggest_improvements" =>
        \A k \in 1..Len(returned) :
            /\ returned[k].type = "merge_similar_folders" =>
                  \A i \in 1..Len(returned[k].folders) :
                      returned[k].folders[i] # root_path
            /\ returned[k].type = "rename_for_consistency" =>
                  \A i \in 1..Len(returned[k].suggested_names) :
                      returned[k].suggested_names[i][1] # root_path

\* C26: for every relocate suggestion of the returned list, the suggested
\* parent is not the folder, not its current parent and not a folder below
\* the folder.
C26_RelocateNotIntoOwnSubtree ==
    call = "suggest_improvements" =>
        \A k \in 1..Len(returned) :
            returned[k].type = "relocate" =>
                /\ returned[k].suggested_parent # returned[k].folder
                /\ returned[k].suggested_parent # Dirname(returned[k].folder)
                /\ ~IsPrefix(returned[k].folder, returned[k].suggested_parent)

\* C29: after the apply of a rename_for_consistency suggestion of the
\* returned list, on the tree of the snapshot, returned true, no folder of
\* the map whose new path was free still has its old name.
C29_EveryFreeEntryRenamed ==
    (/\ last.op = "apply" /\ last.ret
     /\ last.approved[1].type = "rename_for_consistency"
     /\ last.pre_fs = TreeOf(arg)) =>
        \A i \in 1..Len(last.approved[1].suggested_names) :
            ~Exists(last.pre_fs, NewPath(last.approved[1], i)) =>
                ~\E d \in fs.dirs :
                     /\ Len(d) = Len(OldPath(last.approved[1], i))
                     /\ Basename(d) = Basename(OldPath(last.approved[1], i))

(***************************************************************************)
(* The name analyzer (nlp.py): classification of folder names by case and  *)
(* by separator, grouping by string similarity, and standardization.       *)
(***************************************************************************)
CaseKeys == {"lowercase", "uppercase", "capitalized", "camelcase", "mixed"}

SeparatorKeys == {"underscore", "hyphen", "space", "no_separator", "mixed"}

\* _analyze_case_patterns: the bucket one name is appended to.
CasePatternOf(name) ==
    IF IsLower(name) THEN "lowercase"
    ELSE IF IsUpper(name) THEN "uppercase"
    ELSE IF IsUpperChar(name[1]) /\ IsLower(Rest(name)) THEN "capitalized"
    ELSE IF /\ ~IsUpper(name) /\ ~IsLower(name)
            /\ ~HasChar(name, "_") /\ ~HasChar(name, "-") /\ ~HasChar(name, " ")
    THEN IF \E k \in 2..Len(name) : IsUpperChar(name[k]) THEN "camelcase" ELSE "mixed"
    ELSE "mixed"

\* _analyze_separator_patterns: the bucket one name is appended to.
SeparatorPatternOf(name) ==
    IF CountChar(name, "_") > 0 /\ CountChar(name, "-") = 0 /\ CountChar(name, " ") = 0
    THEN "underscore"
    ELSE IF CountChar(name, "-") > 0 /\ CountChar(name, "_") = 0 /\ CountChar(name, " ") = 0
    THEN "hyphen"
    ELSE IF CountChar(name, " ") > 0 /\ CountChar(name, "_") = 0 /\ CountChar(name, "-") = 0
    THEN "space"
    ELSE IF CountChar(name, "_") = 0 /\ CountChar(name, "-") = 0 /\ CountChar(name, " ") = 0
    THEN "no_separator"
    ELSE "mixed"

\* RemoveEmpty that keeps the empty pattern groups.
RemoveEmptyKeepsAll(patterns) == patterns

\* "{k: v for k, v in patterns.items() if v}"
RemoveEmpty(patterns) ==
    [key \in {k \in DOMAIN patterns : patterns[k] # << >>} |-> patterns[key]]

\* _analyze_case_patterns(folder_names)
AnalyzeCasePatterns(folder_names) ==
    RemoveEmpty([key \in CaseKeys |->
                    SelectSeq(folder_names, LAMBDA name : CasePatternOf(name) = key)])

\* _analyze_separator_patterns(folder_names)
AnalyzeSeparatorPatterns(folder_names) ==
    RemoveEmpty([key \in SeparatorKeys |->
                    SelectSeq(folder_names, LAMBDA name : SeparatorPatternOf(name) = key)])

\* The number of digits a name starts with, and ends with.
RECURSIVE LeadingDigits(_)
LeadingDigits(s) ==
    IF s # << >> /\ IsDigitChar(s[1]) THEN 1 + LeadingDigits(Rest(s)) ELSE 0

RECURSIVE TrailingDigits(_)
TrailingDigits(s) ==
    IF s # << >> /\ IsDigitChar(s[Len(s)])
    THEN 1 + TrailingDigits(SubSeq(s, 1, Len(s) - 1))
    ELSE 0

\* s.lstrip('_- ')
RECURSIVE LStripSeparators(_)
LStripSeparators(s) ==
    IF s # << >> /\ s[1] \in SeparatorChars THEN LStripSeparators(Rest(s)) ELSE s

\* re.sub(r'^(\d+[_\-\s]+)', '', name)
StripLeadingNumber(name) ==
    LET After(n) ==
            IF n > 0 /\ n < Len(name) /\ name[n + 1] \in SeparatorChars
            THEN LStripSeparators(SubSeq(name, n + 1, Len(name)))
            ELSE name
    IN  After(LeadingDigits(name))

\* re.sub(r'([_\-\s]+\d+)$', '', name)
StripTrailingNumber(name) ==
    LET Before(n) ==
            IF n > 0 /\ n < Len(name) /\ name[Len(name) - n] \in SeparatorChars
            THEN RStripSeparators(SubSeq(name, 1, Len(name) - n))
            ELSE name
    IN  Before(TrailingDigits(name))

StopWords ==
    {<<"f", "o", "l", "d", "e", "r">>, <<"d", "i", "r">>,
     <<"d", "i", "r", "e", "c", "t", "o", "r", "y">>, <<"t", "e", "m", "p">>,
     <<"t", "m", "p">>, <<"b", "a", "c", "k", "u", "p">>, <<"o", "l", "d">>,
     <<"n", "e", "w">>}

\* _clean_name_for_semantic(name)
CleanNameForSemantic(name) ==
    LET Words(stripped) ==
            SelectSeq(NonEmpty(SplitOn(Lower(stripped), {" "}, << >>)),
                      LAMBDA w : w \notin StopWords)
    IN  JoinWith(Words(StripTrailingNumber(StripLeadingNumber(
                     ReplaceChar(ReplaceChar(name, "_", " "), "-", " ")))),
                 <<" ">>)

\* The place of a character in the order of the code points.
CharRank(c) ==
    IF IsDigitChar(c) THEN CHOOSE k \in 1..10 : DigitChars[k] = c
    ELSE IF IsUpperChar(c) THEN 10 + (CHOOSE k \in 1..26 : UpperChars[k] = c)
    ELSE IF c = "_" THEN 37
    ELSE IF IsLowerChar(c) THEN 37 + (CHOOSE k \in 1..26 : LowerChars[k] = c)
    ELSE 0

\* a < b for strings
RECURSIVE StringLess(_, _)
StringLess(a, b) ==
    IF b = << >> THEN FALSE
    ELSE IF a = << >> THEN TRUE
    ELSE IF a[1] = b[1] THEN StringLess(Rest(a), Rest(b))
    ELSE CharRank(a[1]) < CharRank(b[1])

\* sorted(tokens)
RECURSIVE Sorted(_)
Sorted(tokens) ==
    IF tokens = << >> THEN << >>
    ELSE LET Insert(rest) ==
                 SelectSeq(rest, LAMBDA t : ~StringLess(tokens[1], t))
                   \o <<tokens[1]>>
                   \o SelectSeq(rest, LAMBDA t : StringLess(tokens[1], t))
         IN  Insert(Sorted(Tail(tokens)))

\* fuzzywuzzy utils.full_process: characters that are not word characters
\* become spaces, lower case, strip.
FullProcess(s) ==
    [k \in 1..Len(s) |->
        IF IsLowerChar(s[k]) \/ IsUpperChar(s[k]) \/ IsDigitChar(s[k]) \/ s[k] = "_"
        THEN ToLower(s[k]) ELSE " "]

\* fuzz._process_and_sort: the sorted tokens of the processed string, joined.
ProcessAndSort(s) == JoinWith(Sorted(NonEmpty(SplitOn(FullProcess(s), {" "}, << >>))), <<" ">>)

\* The length of the longest common subsequence of a[i..] and b[j..].
RECURSIVE LongestCommonSubsequence(_, _, _, _)
LongestCommonSubsequence(a, b, i, j) ==
    IF i > Len(a) \/ j > Len(b) THEN 0
    ELSE IF a[i] = b[j] THEN 1 + LongestCommonSubsequence(a, b, i + 1, j + 1)
    ELSE MaxOf({LongestCommonSubsequence(a, b, i + 1, j),
                LongestCommonSubsequence(a, b, i, j + 1)})

\* The SequenceMatcher fuzzywuzzy imports: that of python-Levenshtein when
\* that package is installed, that of difflib otherwise.
Backends == {"difflib", "levenshtein"}

\* SequenceMatcher(None, s1, s2).ratio() of the backend, as a fraction.
BackendRatio(s1, s2, backend) ==
    IF backend = "difflib" THEN Ratio(s1, s2)
    ELSE <<2 * LongestCommonSubsequence(s1, s2, 1, 1), Len(s1) + Len(s2)>>

\* int(round(100 * r)) for the fraction r: round half to even.
Intr(r) ==
    LET Rounded(floor, twice_rest) ==
            IF twice_rest > r[2] \/ (twice_rest = r[2] /\ floor % 2 = 1)
            THEN floor + 1 ELSE floor
    IN  Rounded((100 * r[1]) \div r[2], 2 * ((100 * r[1]) % r[2]))

\* fuzz.ratio: 100 for equal strings, 0 when one is empty.
FuzzRatio(s1, s2, backend) ==
    IF s1 = s2 THEN 100
    ELSE IF s1 = << >> \/ s2 = << >> THEN 0
    ELSE Intr(BackendRatio(s1, s2, backend))

\* fuzz.token_sort_ratio(s1, s2)
TokenSortRatio(s1, s2, backend) == FuzzRatio(ProcessAndSort(s1), ProcessAndSort(s2), backend)

\* _find_semantic_groups_with_string_similarity: the loop over name2;
\* <<group, processed>> after it.
RECURSIVE SimilarToName(_, _, _, _, _, _)
SimilarToName(folder_names, name1, j, group, processed, backend) ==
    IF j > Len(folder_names) THEN <<group, processed>>
    ELSE IF folder_names[j] \in processed
    THEN SimilarToName(folder_names, name1, j + 1, group, processed, backend)
    ELSE IF TokenSortRatio(CleanNameForSemantic(name1),
                           CleanNameForSemantic(folder_names[j]), backend) > 70
    THEN SimilarToName(folder_names, name1, j + 1, Append(group, folder_names[j]),
                       processed \cup {folder_names[j]}, backend)
    ELSE SimilarToName(folder_names, name1, j + 1, group, processed, backend)

\* _find_semantic_groups_with_string_similarity: the loop over name1.
RECURSIVE SimilarityGroupsLoop(_, _, _, _, _)
SimilarityGroupsLoop(folder_names, i, processed, groups, backend) ==
    IF i > Len(folder_names) THEN groups
    ELSE IF folder_names[i] \in processed
    THEN SimilarityGroupsLoop(folder_names, i + 1, processed, groups, backend)
    ELSE LET Grouped(inner) ==
                 SimilarityGroupsLoop(folder_names, i + 1, inner[2],
                                      IF Len(inner[1]) > 1 THEN Append(groups, inner[1])
                                      ELSE groups,
                                      backend)
         IN  Grouped(SimilarToName(folder_names, folder_names[i], i + 1,
                                   <<folder_names[i]>>,
                                   processed \cup {folder_names[i]}, backend))

\* _find_common_substring: the longest substring of the shortest string that
\* all strings contain, the leftmost of that length; "" for fewer than two.
FindCommonSubstring(strings) ==
    IF Len(strings) < 2 THEN << >>
    ELSE LET Common(shortest, start, length) ==
                 \A n \in 1..Len(strings) :
                     Contains(strings[n], SubSeq(shortest, start, start + length - 1))
             Starts(shortest, length) ==
                 {start \in 1..(Len(shortest) - length + 1) : Common(shortest, start, length)}
             Of(shortest) ==
                 LET At(length) ==
                         IF length = 0 THEN << >>
                         ELSE SubSeq(shortest, MinOf(Starts(shortest, length)),
                                     MinOf(Starts(shortest, length)) + length - 1)
                 IN  At(MaxOf({0} \cup {length \in 1..Len(shortest) :
                                          Starts(shortest, length) # {}}))
         IN  Of(Shortest(strings))

SimilarityGroup == <<"s", "i", "m", "i", "l", "a", "r", "i", "t", "y", "_", "g", "r", "o", "u", "p", "_">>

\* The key of the i-th group in the result dictionary.
GroupName(group, i) ==
    LET Named(prefix) ==
            IF Len(prefix) > 3 THEN SimilarityGroup \o prefix ELSE SimilarityGroup \o NumStr(i)
    IN  Named(FindCommonSubstring(group))

\* "result[group_name] = group": a later group replaces an earlier one of the same name.
GroupsByName(groups) ==
    [key \in {GroupName(groups[i], i) : i \in 1..Len(groups)} |->
        groups[MaxOf({i \in 1..Len(groups) : GroupName(groups[i], i) = key})]]

\* _find_semantic_groups_with_string_similarity(folder_names)
FindSemanticGroupsWithStringSimilarity(folder_names, backend) ==
    GroupsByName(SimilarityGroupsLoop(folder_names, 1, {}, << >>, backend))

\* _parse_name_components: prefix number, main text, suffix number and
\* words; << >> for a number that is None.
ParseNameComponents(name) ==
    LET Suffixed(prefix_number, main_text, n) ==
            LET Worded(suffix_number, text) ==
                    [prefix_number |-> prefix_number,
                     main_text |-> text,
                     suffix_number |-> suffix_number,
                     words |-> NonEmpty(SplitOn(text, SeparatorChars, << >>))]
            IN  IF n > 0 /\ n < Len(main_text) /\ main_text[Len(main_text) - n] \in SeparatorChars
                THEN Worded(SubSeq(main_text, Len(main_text) - n + 1, Len(main_text)),
                            SubSeq(main_text, 1, Len(main_text) - n - 1))
                ELSE Worded(<< >>, main_text)
        Prefixed(n) ==
            IF n > 0 /\ n < Len(name) /\ name[n + 1] \in SeparatorChars
            THEN Suffixed(SubSeq(name, 1, n), SubSeq(name, n + 2, Len(name)),
                          TrailingDigits(SubSeq(name, n + 2, Len(name))))
            ELSE Suffixed(<< >>, name, TrailingDigits(name))
    IN  Prefixed(LeadingDigits(name))

\* int(digits): the digits without their leading zeros.
RECURSIVE StripZeros(_)
StripZeros(digits) ==
    IF Len(digits) > 1 /\ digits[1] = "0" THEN StripZeros(Rest(digits)) ELSE digits

\* f"{int(digits):02d}"
PadTwo(digits) ==
    IF Len(StripZeros(digits)) = 1 THEN <<"0">> \o StripZeros(digits) ELSE StripZeros(digits)

\* What _standardize_name yields when _reconstruct_name raises IndexError
\* (components['words'][0] of a name without words).
IndexError == <<"IndexError">>

\* _reconstruct_name(components, patterns)
ReconstructName(components, patterns) ==
    LET Numbered(main_text, separator) ==
            IF components.suffix_number # << >>
            THEN main_text \o separator
                   \o (IF patterns.numbering = "padded_number"
                       THEN PadTwo(components.suffix_number)
                       ELSE components.suffix_number)
            ELSE IF components.prefix_number # << >>
            THEN (IF patterns.numbering = "padded_number"
                  THEN PadTwo(components.prefix_number)
                  ELSE components.prefix_number)
                   \o separator \o main_text
            ELSE main_text
        Separated(words, separator) == Numbered(JoinWith(words, separator), separator)
        Cased(words) ==
            Separated(words,
                      CASE patterns.separator = "underscore" -> <<"_">>
                        [] patterns.separator = "hyphen" -> <<"-">>
                        [] patterns.separator = "space" -> <<" ">>
                        [] OTHER -> <<"_">>)
    IN  CASE patterns.case = "lowercase" ->
                Cased([k \in 1..Len(components.words) |-> Lower(components.words[k])])
          [] patterns.case = "uppercase" ->
                Cased([k \in 1..Len(components.words) |-> Upper(components.words[k])])
          [] patterns.case = "capitalized" ->
                Cased([k \in 1..Len(components.words) |-> Capitalize(components.words[k])])
          [] patterns.case = "camelcase" ->
                IF components.words = << >> THEN IndexError
                ELSE JoinWith(<<Lower(components.words[1])>>
                                \o [k \in 1..(Len(components.words) - 1) |->
                                       Capitalize(components.words[k + 1])],
                              << >>)
          [] OTHER -> Cased(components.words)

\* _standardize_name(name, patterns)
StandardizeName(name, patterns) == ReconstructName(ParseNameComponents(name), patterns)

(***************************************************************************)
(* The specification of the name analyzer: a list of names, or one name    *)
(* with target patterns, is drawn, and one function is applied to it.      *)
(***************************************************************************)
\* The longest name standardization is applied to.
MaxNameLen == 3

\* The longest first name of a drawn list, and the most names of a drawn list.
MaxListNameLen == 2

MaxNames == 2

\* The characters of the drawn names: a lower case letter, an upper case
\* letter, the three separators and a digit.
NameAlphabet == {"a", "B", "_", "-", " ", "1"}

\* The non-empty names of at most n characters.
NamesUpTo(n) == UNION {[1..k -> NameAlphabet] : k \in 1..n}

\* The list of names of test_find_semantic_groups_with_string_similarity.
SemanticTestNames ==
    <<<<"p", "h", "o", "t", "o", "s", "_", "2", "0", "2", "2">>,
      <<"p", "i", "c", "t", "u", "r", "e", "s", "_", "2", "0", "2", "2">>,
      <<"i", "m", "a", "g", "e", "s", "_", "2", "0", "2", "2">>,
      <<"d", "o", "c", "u", "m", "e", "n", "t", "s", "_", "2", "0", "2", "2">>,
      <<"d", "o", "c", "s", "_", "2", "0", "2", "2">>>>

\* The names that follow the first name of a drawn list: one of each case
\* bucket and of each separator bucket.
CompanionNames ==
    {<<"a">>, <<"B">>, <<"B", "a">>, <<"a", "B">>, <<"a", "_">>, <<"a", "-", "B">>,
     <<"a", " ", "1">>, <<"_", "-">>}

\* The drawn lists: the list of the test, and every name of at most
\* MaxListNameLen characters followed by fewer than MaxNames companions.
NameLists ==
    {SemanticTestNames}
      \cup {<<name>> \o rest :
              name \in NamesUpTo(MaxListNameLen),
              rest \in UNION {[1..k -> CompanionNames] : k \in 0..(MaxNames - 1)}}

\* Names with a leading and a trailing number, each set off by a separator.
TwiceNumberedNames ==
    {prefix_number \o <<s1>> \o main_text \o <<s2>> \o suffix_number :
        prefix_number \in {<<"1">>, <<"0", "2">>},
        s1 \in SeparatorChars,
        main_text \in {<<"a">>, <<"a", "-", "B">>},
        s2 \in SeparatorChars,
        suffix_number \in {<<"1">>, <<"0", "2">>}}

\* The target patterns _reconstruct_name tells apart: "mixed" and
\* "no_separator" take its else branches, "number" is any numbering target
\* but padded_number.
TargetPatterns ==
    [case : CaseKeys,
     separator : {"underscore", "hyphen", "space", "no_separator"},
     numbering : {"padded_number", "number"}]

\* The patterns of an input that is a list of names.
NoPatterns == [case |-> "none", separator |-> "none", numbering |-> "none"]

NameInit ==
    /\ fs = InitialTree
    /\ logs = {}
    /\ clock = 1
    /\ folder_structure = NotScanned
    /\ last = NoOp
    /\ prev = NoOp
    /\ ops = 0
    /\ call = "none"
    /\ arg \in {[names |-> names, patterns |-> NoPatterns] : names \in NameLists}
               \cup {[names |-> <<name>>, patterns |-> patterns] :
                       name \in NamesUpTo(MaxNameLen) \cup TwiceNumberedNames,
                       patterns \in TargetPatterns}
    /\ returned = << >>

CallAnalyzeCasePatterns ==
    /\ arg.patterns = NoPatterns
    /\ Called("_analyze_case_patterns", AnalyzeCasePatterns(arg.names))

CallAnalyzeSeparatorPatterns ==
    /\ arg.patterns = NoPatterns
    /\ Called("_analyze_separator_patterns", AnalyzeSeparatorPatterns(arg.names))

CallFindSemanticGroups ==
    /\ arg.patterns = NoPatterns
    /\ \E backend \in Backends :
          Called("_find_semantic_groups_with_string_similarity",
                 FindSemanticGroupsWithStringSimilarity(arg.names, backend))

CallStandardizeName ==
    /\ arg.patterns # NoPatterns
    /\ Called("_standardize_name", StandardizeName(arg.names[1], arg.patterns))

\* Standardizing the output of the first call, with the same patterns.
CallStandardizeNameAgain ==
    /\ call = "_standardize_name"
    /\ returned # IndexError
    /\ call' = "_standardize_name again"
    /\ arg' = [arg EXCEPT !.names = <<returned>>]
    /\ returned' = StandardizeName(returned, arg.patterns)
    /\ UNCHANGED organizer_vars

NameNext ==
    \/ CallAnalyzeCasePatterns
    \/ CallAnalyzeSeparatorPatterns
    \/ CallFindSemanticGroups
    \/ CallStandardizeName
    \/ CallStandardizeNameAgain

NameSpec == NameInit /\ [][NameNext]_vars

\* The groups of a result that contain the name.
GroupsWith(result, name) == {key \in DOMAIN result : name \in SeqToSet(result[key])}

\* C16: string-similarity grouping of photos_2022, pictures_2022,
\* images_2022, documents_2022, docs_2022 returns at least two groups, one
\* with the first three names and a different one with the last two.
C16_TwoSimilarityGroups ==
    (call = "_find_semantic_groups_with_string_similarity" /\ arg.names = SemanticTestNames) =>
        /\ Cardinality(DOMAIN returned) >= 2
        /\ \E first, second \in DOMAIN returned :
              /\ first # second
              /\ {arg.names[1], arg.names[2], arg.names[3]} \subseteq SeqToSet(returned[first])
              /\ {arg.names[4], arg.names[5]} \subseteq SeqToSet(returned[second])

\* The result is a classification of the names into the buckets of keys:
\* each name is in exactly one bucket, as often as it is in the list, and
\* no bucket of the result is empty.
Classified(names, result, keys) ==
    /\ DOMAIN result \subseteq keys
    /\ \A key \in DOMAIN result : result[key] # << >>
    /\ \A k \in 1..Len(names) :
          /\ Cardinality(GroupsWith(result, names[k])) = 1
          /\ \A key \in GroupsWith(result, names[k]) :
                Occurrences(result[key], names[k]) = Occurrences(names, names[k])

\* C17: for every list of non-empty names the case classification puts each
\* name in exactly one of lowercase, uppercase, capitalized, camelcase,
\* mixed, the separator classification puts each name in exactly one of
\* underscore, hyphen, space, no_separator, mixed, and empty buckets are
\* omitted from the result.
C17_EachNameInOneBucket ==
    /\ call = "_analyze_case_patterns" => Classified(arg.names, returned, CaseKeys)
    /\ call = "_analyze_separator_patterns" => Classified(arg.names, returned, SeparatorKeys)

\* A list of two names that fall into different buckets.
C17_Witness ==
    /\ call = "_analyze_case_patterns"
    /\ Len(arg.names) = 2
    /\ Cardinality(DOMAIN returned) = 2
    /\ "camelcase" \in DOMAIN returned

\* C18: standardizing the output of _standardize_name again with the same
\* target patterns yields no further change, for every target pattern.
C18_StandardizationIdempotent ==
    call = "_standardize_name again" => returned = arg.names[1]

\* The separator string and the form of a number under the target patterns.
TargetSeparator(patterns) ==
    CASE patterns.separator = "hyphen" -> <<"-">>
      [] patterns.separator = "space" -> <<" ">>
      [] OTHER -> <<"_">>

TargetNumber(digits, patterns) ==
    IF patterns.numbering = "padded_number" THEN PadTwo(digits) ELSE digits

EndsWith(s, t) == Len(t) <= Len(s) /\ SubSeq(s, Len(s) - Len(t) + 1, Len(s)) = t

\* C24: for a target that is not camelcase, the standardized name starts
\* with the leading number parsed off the name and ends with the trailing
\* number parsed off it, each zero-padded to two digits under the padded
\* target and verbatim otherwise; a name with both numbers keeps both.
C24_EveryParsedNumberReattached ==
    (call = "_standardize_name" /\ arg.patterns.case # "camelcase") =>
        LET K(c) ==
                /\ c.prefix_number # << >> =>
                      StartsWith(returned,
                                 TargetNumber(c.prefix_number, arg.patterns)
                                   \o TargetSeparator(arg.patterns))
                /\ c.suffix_number # << >> =>
                      EndsWith(returned,
                               TargetSeparator(arg.patterns)
                                 \o TargetNumber(c.suffix_number, arg.patterns))
        IN  K(ParseNameComponents(arg.names[1]))

=============================================================================
